---- MODULE Spec2Model ----
(***************************************************************************)
(* A model of the scheduling, sending, search and contact resolution of    *)
(* imessage-mcp.                                                           *)
(*                                                                         *)
(* Strings that the program inspects character by character (recipients)   *)
(* are sequences of one-character strings.  Instants are whole             *)
(* milliseconds, as in a JavaScript Date.  Every asynchronous function is  *)
(* cut at its awaits: one action is the synchronous run of code between    *)
(* two awaits of one call, so calls of different requests interleave       *)
(* exactly where the event loop lets them.                                 *)
(***************************************************************************)
EXTENDS Integers, Sequences, FiniteSets, TLC

(***************************************************************************)
(* Bounds of the model.                                                    *)
(***************************************************************************)
\* number of tool calls that can be in flight together
NumProcs == 2
\* the clock runs from 0 to MaxClock
MaxClock == 1
\* schedule calls that pass validation, over a whole run
MaxScheduled == 2
\* crashes of the process, over a whole run
MaxCrashes == 1
\* calls that write the log, over a whole run, where the tool calls are not
\* serialized
MaxCalls == 3
\* rows of the message store
MaxRows == 21
\* rows of the message store whose text is long enough to be a candidate of
\* semantic ranking
MaxLong == 2

\* digits of the longest run of digits in a phone input
MaxDigits == 16
\* items of a batch whose names are resolved together
MaxItems == 2

Procs == 1..NumProcs
Instants == 0..MaxClock

(***************************************************************************)
(* Phone number utilities                                                  *)
(***************************************************************************)
Digit == {"0", "1", "2", "3", "4", "5", "6", "7", "8", "9"}
Whitespace == {" "}

\* phone.replace(/\D/g, "")
StripNonDigits(s) == SelectSeq(s, LAMBDA c : c \in Digit)

\* str.startsWith(c) for a one-character c
StartsWith(s, c) == Len(s) > 0 /\ s[1] = c

\* (mutant) ten digits get the country code without the plus sign
normalizeBareCountryCode(phone) ==
  LET hasPlus == StartsWith(phone, "+")
      digits == StripNonDigits(phone)
  IN  IF Len(digits) = 10 THEN <<"1">> \o digits
      ELSE IF Len(digits) = 11 /\ StartsWith(digits, "1") THEN <<"+">> \o digits
      ELSE IF hasPlus THEN <<"+">> \o digits
      ELSE digits

normalizePhoneNumber(phone) ==
  LET hasPlus == StartsWith(phone, "+")
      digits == StripNonDigits(phone)
  IN  IF Len(digits) = 10 THEN <<"+", "1">> \o digits
      ELSE IF Len(digits) = 11 /\ StartsWith(digits, "1") THEN <<"+">> \o digits
      ELSE IF hasPlus THEN <<"+">> \o digits
      ELSE digits

TooShort == "Phone number too short (minimum 10 digits)"
TooLong == "Phone number too long (maximum 15 digits)"
NoError == "undefined"

\* (mutant) fifteen digits are too long
validateBelowFifteen(phone) ==
  LET normalized == normalizePhoneNumber(phone)
      digits == StripNonDigits(normalized)
  IN  IF Len(digits) < 10
        THEN [valid |-> FALSE, normalized |-> normalized, error |-> TooShort]
      ELSE IF Len(digits) >= 15
        THEN [valid |-> FALSE, normalized |-> normalized, error |-> TooLong]
      ELSE [valid |-> TRUE, normalized |-> normalized, error |-> NoError]

validatePhoneNumber(phone) ==
  LET normalized == normalizePhoneNumber(phone)
      digits == StripNonDigits(normalized)
  IN  IF Len(digits) < 10
        THEN [valid |-> FALSE, normalized |-> normalized, error |-> TooShort]
      ELSE IF Len(digits) > 15
        THEN [valid |-> FALSE, normalized |-> normalized, error |-> TooLong]
      ELSE [valid |-> TRUE, normalized |-> normalized, error |-> NoError]

\* /^[^\s@]+@[^\s@]+\.[^\s@]+$/
\* a run of [^\s@] is a nonempty stretch without whitespace and without "@"
PlainRun(s, a, b) ==
  /\ a <= b
  /\ \A k \in a..b : s[k] \notin Whitespace /\ s[k] # "@"

isEmail(identifier) ==
  \E i \in 1..Len(identifier) : \E j \in 1..Len(identifier) :
    /\ identifier[i] = "@"
    /\ identifier[j] = "."
    /\ PlainRun(identifier, 1, i - 1)
    /\ PlainRun(identifier, i + 1, j - 1)
    /\ PlainRun(identifier, j + 1, Len(identifier))

\* The recipient check that opens sendMessage and scheduleMessage: the
\* validation record, with the recipient the function goes on with.
ValidateRecipient(recipient) ==
  IF isEmail(recipient)
    THEN [valid |-> TRUE, normalized |-> recipient, error |-> NoError]
    ELSE validatePhoneNumber(recipient)

(***************************************************************************)
(* Inputs of the tool calls                                                *)
(***************************************************************************)
Rep(n, c) == [k \in 1..n |-> c]

\* "555-123-4567": ten digits, normalized to +15551234567
PhoneTen == <<"5", "5", "5", "-">> \o Rep(3, "2") \o <<"-">> \o Rep(4, "7")
\* nine digits: too short
PhoneNine == Rep(9, "5")
\* sixteen digits behind a plus sign: too long
PhoneSixteen == <<"+">> \o Rep(16, "4")
\* "a@b.c"
EmailAddr == <<"a", "@", "b", ".", "c">>
\* "a@b": no dot after the at sign, and no digit
NotEmail == <<"a", "@", "b">>

Recipients == {PhoneTen, PhoneNine, PhoneSixteen, EmailAddr, NotEmail}
Bodies == {"hello"}

\* what new Date(scheduledTime).getTime() gives: an instant, or NaN.  At
\* instant t callers pass an unparseable time, or any instant up to t + 1.
NaN == -1
TimeInputs(t) == {NaN} \cup {w \in 0..(MaxClock + 1) : w <= t + 1}

\* every recipient the model meets: the inputs and what they normalize to
KnownRecipients ==
  Recipients \cup {ValidateRecipient(r).normalized : r \in Recipients}

\* ValidateRecipient, evaluated once for each recipient
Validation == [r \in KnownRecipients |-> ValidateRecipient(r)]
CheckRecipient(r) == Validation[r]

(***************************************************************************)
(* Scheduled messages: the log entries and the results of the calls        *)
(***************************************************************************)
\* `sched_${Date.now()}_${random suffix}`: the ids are numbered in the order
\* scheduleMessage generates them; no two calls generate the same id
NoId == 0
Ids == 1..MaxScheduled

Terminal == {"sent", "failed", "cancelled"}
Statuses == {"pending"} \cup Terminal

\* smsError.message of a failed osascript run
SmsErrors == {"timeout", "not authorized"}
\* `Failed to send message. ... Error: ${smsError.message}`
SendFailure(e) ==
  "Failed to send message. Ensure Messages app is running and you have "
    \o "automation permission. Error: " \o e

NotFound == "Scheduled message not found"
CannotCancel(status) == "Cannot cancel message with status: " \o status
BadTime == "Invalid scheduled time format"
NotFuture == "Scheduled time must be in the future"

\* an entry of the log (ScheduledMessage)
NoEntry ==
  [id |-> NoId, recipient |-> <<>>, message |-> "", scheduledTime |-> 0,
   created |-> 0, status |-> "none", error |-> NoError]

\* the arguments of a call, and the instant at which it began
NoReq ==
  [recipient |-> <<>>, message |-> "", scheduledTime |-> 0, id |-> NoId,
   at |-> 0]

\* the value a call resolves to; the fields a call does not set keep these
NoRet ==
  [success |-> FALSE, error |-> NoError, id |-> NoId, service |-> "none",
   sent |-> 0, failed |-> 0, results |-> <<>>, list |-> <<>>]

VARIABLES
  serial,     \* the deployment runs one tool call at a time
  microtasks, \* the calls whose continuation is queued, oldest first
  file,       \* the persisted schedule log: the parsed content of the file
  clock,      \* the current instant
  pc,         \* where each call stands
  op,         \* the operation each call runs, or ran last
  req,        \* the arguments of each call
  scheduled,  \* scheduleMessage: the entry built before the load
  msgs,       \* the in-memory copy of the log of each call (`messages`)
  now,        \* sendScheduledMessages: the captured `now`
  idx,        \* sendScheduledMessages: the entry being sent
  cnt,        \* sendScheduledMessages: the counters `sent` and `failed`
  ret,        \* the value the call returned
  before,     \* history: the persisted log when the call began
  loaded,     \* history: the log as the call loaded it
  tried,      \* history: the osascript runs of the call, in order
  io,         \* history: the loads and saves of the call
  known,      \* history: the cancels acknowledged when the call began
  nextId,     \* the number of the next id generated
  fired,      \* history: sendMessage invocations per entry, over all sweeps
  delivered,  \* history: osascript runs that delivered the entry
  acked,      \* history: entries whose scheduleMessage returned success
  cancelAcked,\* history: entries whose cancel returned success
  crashes,    \* history: the number of crashes of the process
  lost,       \* history: entries delivered by a sweep that crashed unsaved
  calls       \* history: the writing calls begun, where not serialized

VARIABLES
  apiKey,         \* OPENAI_API_KEY is set
  store,          \* the message table with its joins, in ROWID order
  spc,            \* where the search call stands
  sop,            \* the search the call runs: "semantic" or "lexical"
  sargs,          \* the arguments of the search call
  queryEmbedding, \* semanticSearch: the embedding of the query, or Null
  candidates,     \* semanticSearch: `messages`, the rows to rank
  embeddings,     \* semanticSearch: what each candidate's getEmbedding gave
  sret,           \* the value the search call resolves to
  requests        \* history: the https requests of the call to the provider

searchVars ==
  <<apiKey, store, spc, sop, sargs, queryEmbedding, candidates, embeddings,
    sret, requests>>

storeVars ==
  <<serial, microtasks, file, clock, pc, op, req, scheduled, msgs,
    now, idx, cnt, ret, before, loaded, tried, io, known, nextId,
    fired, delivered, acked, cancelAcked, crashes, lost, calls>>

VARIABLES
  phones,   \* the phone tools: the string passed and what the functions gave
  contacts  \* getContactName: its Map and the tool call that resolves names

\* the string a caller passes where a phone number is expected
phone == phones.phone
\* what normalizePhoneNumber gave for it, pass after pass
pnorm == phones.normalized
\* what validatePhoneNumber gave for it, pass after pass
pval == phones.validation

\* the Map of getContactName: identifier to name, or to ""
contactCache == contacts.contactCache
\* where the tool call that resolves names stands
cpc == contacts.pc
\* the tool: "lookup", "recent" or "enrich"
ckind == contacts.kind
\* the identifiers of the call, in input order
items == contacts.items
\* the getContactName call of each item
lookups == contacts.lookups
\* the value the tool call resolves to
cret == contacts.ret
\* history: the results of the resolves that have returned
completed == contacts.completed
\* history: the items in the order their resolve returned
order == contacts.order

\* the phone tools and the contact resolution
nameVars == <<phones, contacts>>

VARIABLES
  queries,  \* the tools that read the message store: the call in flight
  logfile   \* the schedule log on disk, and the call that last met it

\* where the call that reads the message store stands
qpc == queries.pc
\* the tool: "convert", "search", "recent", "chat" or "context"
qtool == queries.tool
\* the arguments of the call
qargs == queries.args
\* `whereConditions` of the call, in the order they were pushed
qwhere == queries.where
\* the target row of getMessageContext (`targetRows[0]`)
qtarget == queries.target
\* history: the queries the call passed to queryMessagesDb, in order
qissued == queries.issued
\* history: how sqlite3 answered each of them
qoutputs == queries.outputs
\* the value the call resolves to, or the error it throws
qret == queries.ret

\* what SCHEDULED_MESSAGES_PATH holds: "entries" (the log `file`),
\* "missing", "unparseable" or "object"
disk == logfile.disk
\* the schedule store call that ran last on that file
lop == logfile.op
\* what the call returned, or the error it threw
lret == logfile.ret

\* the reading tools and the log file
toolVars == <<queries, logfile>>

\* what the schedule store leaves alone
queryVars == <<searchVars, nameVars, toolVars>>

vars == <<searchVars, storeVars, nameVars, toolVars>>

NoCnt == [sent |-> 0, failed |-> 0, results |-> <<>>]
NoIo == [reads |-> 0, writes |-> 0, triedAtWrite |-> 0]

\* the process has started: the log is empty, no tool call has arrived
Started ==
  /\ file = <<>>
  /\ microtasks = <<>>
  /\ clock = 0
  /\ pc = [p \in Procs |-> "idle"]
  /\ op = [p \in Procs |-> "none"]
  /\ req = [p \in Procs |-> NoReq]
  /\ scheduled = [p \in Procs |-> NoEntry]
  /\ msgs = [p \in Procs |-> <<>>]
  /\ now = [p \in Procs |-> 0]
  /\ idx = [p \in Procs |-> 0]
  /\ cnt = [p \in Procs |-> NoCnt]
  /\ ret = [p \in Procs |-> NoRet]
  /\ before = [p \in Procs |-> <<>>]
  /\ loaded = [p \in Procs |-> <<>>]
  /\ tried = [p \in Procs |-> <<>>]
  /\ io = [p \in Procs |-> NoIo]
  /\ known = [p \in Procs |-> {}]
  /\ nextId = 1
  /\ fired = [u \in Ids |-> 0]
  /\ delivered = [u \in Ids |-> 0]
  /\ acked = {}
  /\ cancelAcked = {}
  /\ crashes = 0
  /\ lost = {}
  /\ calls = 0

\* a returned value is handed to its caller before anything else runs
Returning == \E p \in Procs : pc[p] = "done"

\* no tool call is in flight
Quiet == \A p \in Procs : pc[p] = "idle"

\* a call can begin on a slot that runs nothing; where the deployment
\* serializes the tool calls, it begins when no other call is in flight
\* (and one slot, slot 1, runs them all)
Free(p) ==
  /\ pc[p] = "idle"
  /\ ~Returning
  /\ serial => Quiet /\ p = 1

\* the calls the model counts: those that write the log, where the tool
\* calls are not serialized
Counted(name) == ~serial /\ name # "list"

\* call p waits at its await `at`
At(p, at) == pc[p] = at /\ ~Returning

\* Call p awaits a promise that is already settled (load and save use the
\* synchronous fs calls): its continuation is queued as a microtask.
Suspend(p) == microtasks' = Append(microtasks, p)

\* The microtask at the head of the queue runs: call p goes on from `at`.
Resumed(p, at) ==
  /\ At(p, at)
  /\ microtasks # <<>>
  /\ Head(microtasks) = p
  /\ microtasks' = Tail(microtasks)

\* The child process call p awaits at `at` has ended; its callback runs
\* when no microtask is queued.
Completed(p, at) ==
  /\ At(p, at)
  /\ microtasks = <<>>

\* A call begins.
Start(p, name, r) ==
  /\ Free(p)
  /\ Counted(name) => calls < MaxCalls
  /\ calls' = IF Counted(name) THEN calls + 1 ELSE calls
  /\ op' = [op EXCEPT ![p] = name]
  /\ req' = [req EXCEPT ![p] = [r EXCEPT !.at = clock]]
  /\ before' = [before EXCEPT ![p] = file]
  /\ known' = [known EXCEPT ![p] = IF name = "list" THEN cancelAcked ELSE {}]
  /\ now' = [now EXCEPT ![p] = 0]
  /\ idx' = [idx EXCEPT ![p] = 0]
  /\ cnt' = [cnt EXCEPT ![p] = NoCnt]
  /\ tried' = [tried EXCEPT ![p] = <<>>]

\* A call returns value r.
Return(p, r) ==
  /\ pc' = [pc EXCEPT ![p] = "done"]
  /\ ret' = [ret EXCEPT ![p] = r]

Failure(e) == [NoRet EXCEPT !.error = e]

\* The caller has the value: the slot is free, the locals of the call are
\* gone.
Forget(p) ==
  /\ pc[p] = "done"
  /\ pc' = [pc EXCEPT ![p] = "idle"]
  /\ op' = [op EXCEPT ![p] = "none"]
  /\ req' = [req EXCEPT ![p] = NoReq]
  /\ scheduled' = [scheduled EXCEPT ![p] = NoEntry]
  /\ msgs' = [msgs EXCEPT ![p] = <<>>]
  /\ now' = [now EXCEPT ![p] = 0]
  /\ idx' = [idx EXCEPT ![p] = 0]
  /\ cnt' = [cnt EXCEPT ![p] = NoCnt]
  /\ ret' = [ret EXCEPT ![p] = NoRet]
  /\ before' = [before EXCEPT ![p] = <<>>]
  /\ loaded' = [loaded EXCEPT ![p] = <<>>]
  /\ tried' = [tried EXCEPT ![p] = <<>>]
  /\ io' = [io EXCEPT ![p] = NoIo]
  /\ known' = [known EXCEPT ![p] = {}]
  /\ UNCHANGED <<queryVars, serial, microtasks, file, clock, nextId, fired,
                 delivered, acked, cancelAcked, crashes, lost, calls>>

\* the clock moves by itself
Tick ==
  /\ ~Returning
  /\ clock < MaxClock
  /\ clock' = clock + 1
  /\ UNCHANGED <<queryVars, serial, microtasks, before, file, pc, op, req,
                 scheduled, msgs, now, idx, cnt, ret, loaded, tried, io,
                 known, nextId, fired, delivered, acked, cancelAcked, crashes,
                 lost, calls>>

(***************************************************************************)
(* loadScheduledMessages / saveScheduledMessages                           *)
(***************************************************************************)
\* loadScheduledMessages(): the parsed content of the file; a missing file
\* reads as the empty log
loadScheduledMessages == file

\* `const messages = await loadScheduledMessages()` of call p
Load(p) ==
  /\ msgs' = [msgs EXCEPT ![p] = loadScheduledMessages]
  /\ loaded' = [loaded EXCEPT ![p] = loadScheduledMessages]
  /\ io' = [io EXCEPT ![p] = [NoIo EXCEPT !.reads = 1]]

\* (mutant) a save that keeps the entries of the file that `messages` lacks
SavedLogMerged(messages) ==
  messages \o SelectSeq(file, LAMBDA e :
                          \A i \in 1..Len(messages) : messages[i].id # e.id)

\* (mutant) a save that drops the cancelled entries
SavedLogPruned(messages) ==
  SelectSeq(messages, LAMBDA e : e.status # "cancelled")

\* what saveScheduledMessages(messages) leaves in the file
SavedLog(messages) == messages

\* `await saveScheduledMessages(m)` of call p: the whole file is replaced
\* (t: the osascript runs of the call so far)
Save(p, m, t) ==
  /\ file' = SavedLog(m)
  /\ msgs' = [msgs EXCEPT ![p] = m]
  /\ io' = [io EXCEPT ![p] = [@ EXCEPT !.writes = @ + 1,
                                        !.triedAtWrite = Len(t)]]

(***************************************************************************)
(* scheduleMessage                                                         *)
(***************************************************************************)
\* (mutant) a future-time check that lets the current instant through
ScheduleErrorLate(recipient, scheduledTime, t) ==
  LET v == CheckRecipient(recipient)
  IN  IF ~v.valid THEN v.error
      ELSE IF scheduledTime = NaN THEN BadTime
      ELSE IF scheduledTime < t THEN NotFuture
      ELSE NoError

\* the error scheduleMessage returns before it touches the log, or NoError;
\* t is what `new Date()` reads at the future-time check
ScheduleError(recipient, scheduledTime, t) ==
  LET v == CheckRecipient(recipient)
  IN  IF ~v.valid THEN v.error
      ELSE IF scheduledTime = NaN THEN BadTime
      ELSE IF scheduledTime <= t THEN NotFuture
      ELSE NoError

\* The call fails validation and returns at once.
ScheduleReject(p, recipient, message, scheduledTime) ==
  /\ Start(p, "schedule",
           [NoReq EXCEPT !.recipient = recipient, !.message = message,
                         !.scheduledTime = scheduledTime])
  /\ ScheduleError(recipient, scheduledTime, clock) # NoError
  /\ Return(p, Failure(ScheduleError(recipient, scheduledTime, clock)))
  /\ scheduled' = [scheduled EXCEPT ![p] = NoEntry]
  /\ msgs' = [msgs EXCEPT ![p] = <<>>]
  /\ loaded' = [loaded EXCEPT ![p] = <<>>]
  /\ io' = [io EXCEPT ![p] = NoIo]
  /\ UNCHANGED <<queryVars, serial, microtasks, file, clock, nextId, fired,
                 delivered, acked, cancelAcked, crashes, lost>>

\* The call passes validation, builds the entry and loads the log.  The
\* clock is read again after the future-time check: new Date() for
\* `created` reads tCreated.
ScheduleLoad(p, recipient, message, scheduledTime, tCreated) ==
  /\ Start(p, "schedule",
           [NoReq EXCEPT !.recipient = recipient, !.message = message,
                         !.scheduledTime = scheduledTime])
  /\ ScheduleError(recipient, scheduledTime, clock) = NoError
  /\ nextId <= MaxScheduled
  /\ clock <= tCreated
  /\ clock' = tCreated
  /\ scheduled' =
       [scheduled EXCEPT ![p] =
          [id |-> nextId,
           recipient |-> CheckRecipient(recipient).normalized,
           message |-> message,
           scheduledTime |-> scheduledTime,
           created |-> tCreated,
           status |-> "pending",
           error |-> NoError]]
  /\ nextId' = nextId + 1
  /\ Load(p)
  /\ Suspend(p)
  /\ pc' = [pc EXCEPT ![p] = "schedule_loaded"]
  /\ UNCHANGED <<queryVars, serial, file, ret, fired, delivered, acked,
                 cancelAcked, crashes, lost>>

\* messages.push(scheduled); save; return
ScheduleSave(p) ==
  /\ Resumed(p, "schedule_loaded")
  /\ Save(p, Append(msgs[p], scheduled[p]), tried[p])
  /\ Return(p, [NoRet EXCEPT !.success = TRUE, !.id = scheduled[p].id])
  /\ acked' = acked \cup {scheduled[p].id}
  /\ UNCHANGED <<queryVars, serial, before, clock, op, req, scheduled, now,
                 idx, cnt, loaded, tried, known, nextId, fired, delivered,
                 cancelAcked, crashes, lost, calls>>

(***************************************************************************)
(* getScheduledMessages                                                    *)
(***************************************************************************)
getScheduledMessages(p) ==
  /\ Start(p, "list", NoReq)
  /\ Load(p)
  /\ Return(p, [NoRet EXCEPT !.success = TRUE, !.list = loadScheduledMessages])
  /\ scheduled' = [scheduled EXCEPT ![p] = NoEntry]
  /\ UNCHANGED <<queryVars, serial, microtasks, file, clock, nextId, fired,
                 delivered, acked, cancelAcked, crashes, lost>>

(***************************************************************************)
(* cancelScheduledMessage                                                  *)
(***************************************************************************)
\* messages.findIndex((m) => m.id === id), counted from 1; 0 for -1
findIndex(messages, id) ==
  IF \E i \in 1..Len(messages) : messages[i].id = id
    THEN CHOOSE i \in 1..Len(messages) :
           /\ messages[i].id = id
           /\ \A k \in 1..(i - 1) : messages[k].id # id
    ELSE 0

CancelLoad(p, id) ==
  /\ Start(p, "cancel", [NoReq EXCEPT !.id = id])
  /\ Load(p)
  /\ Suspend(p)
  /\ pc' = [pc EXCEPT ![p] = "cancel_loaded"]
  /\ scheduled' = [scheduled EXCEPT ![p] = NoEntry]
  /\ UNCHANGED <<queryVars, serial, file, clock, ret, nextId, fired,
                 delivered, acked, cancelAcked, crashes, lost>>

\* (mutant) a cancel that marks the entry failed
CancelledAsFailed == "failed"

\* the status cancelScheduledMessage writes
CancelledStatus == "cancelled"

CancelFinish(p) ==
  /\ Resumed(p, "cancel_loaded")
  /\ LET index == findIndex(msgs[p], req[p].id)
     IN  IF index = 0
           THEN /\ Return(p, Failure(NotFound))
                /\ UNCHANGED <<file, msgs, io, cancelAcked>>
         ELSE IF msgs[p][index].status # "pending"
           THEN /\ Return(p, Failure(CannotCancel(msgs[p][index].status)))
                /\ UNCHANGED <<file, msgs, io, cancelAcked>>
         ELSE /\ Save(p, [msgs[p] EXCEPT ![index].status = CancelledStatus],
                      tried[p])
              /\ Return(p, [NoRet EXCEPT !.success = TRUE])
              /\ cancelAcked' = cancelAcked \cup {msgs[p][index].id}
  /\ UNCHANGED <<queryVars, serial, before, clock, op, req, scheduled, now,
                 idx, cnt, loaded, tried, known, nextId, fired, delivered,
                 acked, crashes, lost, calls>>

(***************************************************************************)
(* sendScheduledMessages and sendMessage                                   *)
(***************************************************************************)
\* (mutant) an entry is due only after its scheduled time
DueStrictly(scheduledTime, t) == scheduledTime < t

\* `scheduledTime <= now`
Due(scheduledTime, t) == scheduledTime <= t

\* (mutant) the loop without `if (msg.status !== "pending") continue`
ToSendAnyStatus(msg, t) == Due(msg.scheduledTime, t)

\* (mutant) a loop that tries the failed entries again
ToSendOrRetry(msg, t) ==
  msg.status \in {"pending", "failed"} /\ Due(msg.scheduledTime, t)

\* the loop's test of one entry: it is sent when pending and due
ToSend(msg, t) == msg.status = "pending" /\ Due(msg.scheduledTime, t)

\* the two branches after `const result = await sendMessage(...)`
MarkSent(m, i) == [m EXCEPT ![i].status = "sent"]
MarkFailed(m, i, e) == [m EXCEPT ![i].status = "failed", ![i].error = e]

CountSent(c, msg) ==
  [c EXCEPT !.sent = @ + 1,
            !.results = Append(@, [id |-> msg.id, status |-> "sent"])]
CountFailed(c, msg) ==
  [c EXCEPT !.failed = @ + 1,
            !.results = Append(@, [id |-> msg.id, status |-> "failed"])]

\* The loop from entry i on, up to the first entry whose sendMessage runs
\* osascript (idx <= Len(msgs)) or to the end of the log (idx > Len(msgs)).
\* An entry whose recipient sendMessage rejects is marked failed on the way.
RECURSIVE ScanFrom(_, _, _, _)
ScanFrom(m, i, t, c) ==
  IF i > Len(m) THEN [msgs |-> m, idx |-> i, cnt |-> c]
  ELSE IF ~ToSend(m[i], t) THEN ScanFrom(m, i + 1, t, c)
  ELSE LET v == CheckRecipient(m[i].recipient)
       IN  IF v.valid THEN [msgs |-> m, idx |-> i, cnt |-> c]
           ELSE ScanFrom(MarkFailed(m, i, v.error), i + 1, t,
                         CountFailed(c, m[i]))

\* (mutant) a sweep that saves the log after every entry it has handled
ResumeSavingEach(p, m, i, t, c, tr) ==
  LET s == ScanFrom(m, i, t, c)
  IN  /\ idx' = [idx EXCEPT ![p] = s.idx]
      /\ cnt' = [cnt EXCEPT ![p] = s.cnt]
      /\ Save(p, s.msgs, tr)
      /\ IF s.idx > Len(s.msgs)
           THEN /\ Return(p, [NoRet EXCEPT !.success = TRUE,
                                           !.sent = s.cnt.sent,
                                           !.failed = s.cnt.failed,
                                           !.results = s.cnt.results])
                /\ UNCHANGED fired
           ELSE /\ pc' = [pc EXCEPT ![p] = "imessage"]
                /\ fired' = [fired EXCEPT ![s.msgs[s.idx].id] = @ + 1]
                /\ UNCHANGED ret

\* The sweep of call p goes on at entry i, with local log m, counters c,
\* captured instant t and osascript runs tr: it stops in the next
\* sendMessage, or reaches the end of the loop, saves and returns.
Resume(p, m, i, t, c, tr) ==
  LET s == ScanFrom(m, i, t, c)
  IN  /\ idx' = [idx EXCEPT ![p] = s.idx]
      /\ cnt' = [cnt EXCEPT ![p] = s.cnt]
      /\ IF s.idx > Len(s.msgs)
           THEN /\ Save(p, s.msgs, tr)
                /\ Return(p, [NoRet EXCEPT !.success = TRUE,
                                           !.sent = s.cnt.sent,
                                           !.failed = s.cnt.failed,
                                           !.results = s.cnt.results])
                /\ UNCHANGED fired
           ELSE /\ msgs' = [msgs EXCEPT ![p] = s.msgs]
                /\ pc' = [pc EXCEPT ![p] = "imessage"]
                /\ fired' = [fired EXCEPT ![s.msgs[s.idx].id] = @ + 1]
                /\ UNCHANGED <<file, io, ret>>

\* (mutant) a sweep that begins only when no other sweep is in flight
SweepLoadGuarded(p) ==
  /\ \A q \in Procs : op[q] = "sweep" => pc[q] \in {"idle", "done"}
  /\ Start(p, "sweep", NoReq)
  /\ Load(p)
  /\ Suspend(p)
  /\ pc' = [pc EXCEPT ![p] = "sweep_loaded"]
  /\ scheduled' = [scheduled EXCEPT ![p] = NoEntry]
  /\ UNCHANGED <<queryVars, serial, file, clock, ret, nextId, fired,
                 delivered, acked, cancelAcked, crashes, lost>>

SweepLoad(p) ==
  /\ Start(p, "sweep", NoReq)
  /\ Load(p)
  /\ Suspend(p)
  /\ pc' = [pc EXCEPT ![p] = "sweep_loaded"]
  /\ scheduled' = [scheduled EXCEPT ![p] = NoEntry]
  /\ UNCHANGED <<queryVars, serial, file, clock, ret, nextId, fired,
                 delivered, acked, cancelAcked, crashes, lost>>

\* `const now = new Date()` and the loop up to its first await
SweepBegin(p) ==
  /\ Resumed(p, "sweep_loaded")
  /\ now' = [now EXCEPT ![p] = clock]
  /\ Resume(p, msgs[p], 1, clock, cnt[p], tried[p])
  /\ UNCHANGED delivered
  /\ UNCHANGED <<queryVars, serial, before, clock, op, req, scheduled,
                 loaded, tried, known, nextId, acked, cancelAcked, crashes,
                 lost, calls>>

\* sendMessage as a tool call: the recipient check, then the first osascript
SendCall(p, recipient, message) ==
  /\ Start(p, "send",
           [NoReq EXCEPT !.recipient = recipient, !.message = message])
  /\ LET v == CheckRecipient(recipient)
     IN  IF v.valid
           THEN pc' = [pc EXCEPT ![p] = "imessage"] /\ UNCHANGED ret
           ELSE Return(p, Failure(v.error))
  /\ scheduled' = [scheduled EXCEPT ![p] = NoEntry]
  /\ msgs' = [msgs EXCEPT ![p] = <<>>]
  /\ loaded' = [loaded EXCEPT ![p] = <<>>]
  /\ io' = [io EXCEPT ![p] = NoIo]
  /\ UNCHANGED <<queryVars, serial, microtasks, file, clock, nextId, fired,
                 delivered, acked, cancelAcked, crashes, lost>>

\* one osascript run of call p, for entry idx[p] of its sweep (0: a tool
\* call): the service, and the error message of the run (NoError: it ran)
Attempt(p, service, e) == [entry |-> idx[p], service |-> service, error |-> e]
Ran(a) == a.error = NoError

\* sendMessage of call p returns r; tr: the osascript runs of the call.
\* A tool call returns r; a sweep marks the entry and goes on with the loop.
Deliver(p, r, tr) ==
  IF op[p] = "send"
    THEN /\ Return(p, r)
         /\ UNCHANGED <<file, msgs, idx, cnt, io, fired, delivered>>
    ELSE IF r.success
      THEN /\ Resume(p, MarkSent(msgs[p], idx[p]), idx[p] + 1, now[p],
                     CountSent(cnt[p], msgs[p][idx[p]]), tr)
           /\ delivered' = [delivered EXCEPT ![msgs[p][idx[p]].id] = @ + 1]
      ELSE /\ Resume(p, MarkFailed(msgs[p], idx[p], r.error), idx[p] + 1,
                     now[p], CountFailed(cnt[p], msgs[p][idx[p]]), tr)
           /\ UNCHANGED delivered

\* (mutant) a sendMessage that tries SMS first
SmsFirst == "SMS"

\* the service sendMessage tries first, and the one it falls back to
FirstService == "iMessage"
FallbackService == "SMS"

\* the iMessage osascript succeeds
IMessageOk(p) ==
  /\ Completed(p, "imessage")
  /\ tried' = [tried EXCEPT ![p] = Append(@, Attempt(p, FirstService, NoError))]
  /\ Deliver(p, [NoRet EXCEPT !.success = TRUE, !.service = FirstService],
             tried'[p])
  /\ UNCHANGED <<queryVars, serial, microtasks, before, clock, op, req,
                 scheduled, now, loaded, known, nextId, acked, cancelAcked,
                 crashes, lost, calls>>

\* the iMessage osascript fails; the catch block drops its error and runs
\* the SMS osascript
IMessageError == "iMessage failed"

IMessageFail(p) ==
  /\ Completed(p, "imessage")
  /\ tried' = [tried EXCEPT ![p] =
                 Append(@, Attempt(p, FirstService, IMessageError))]
  /\ pc' = [pc EXCEPT ![p] = "sms"]
  /\ UNCHANGED <<queryVars, serial, microtasks, before, file, clock, op, req,
                 scheduled, msgs, now, idx, cnt, ret, loaded, io, known,
                 nextId, fired, delivered, acked, cancelAcked, crashes, lost,
                 calls>>

SmsOk(p) ==
  /\ Completed(p, "sms")
  /\ tried' = [tried EXCEPT ![p] =
                 Append(@, Attempt(p, FallbackService, NoError))]
  /\ Deliver(p, [NoRet EXCEPT !.success = TRUE, !.service = FallbackService],
             tried'[p])
  /\ UNCHANGED <<queryVars, serial, microtasks, before, clock, op, req,
                 scheduled, now, loaded, known, nextId, acked, cancelAcked,
                 crashes, lost, calls>>

\* the SMS osascript fails with message e
SmsFail(p, e) ==
  /\ Completed(p, "sms")
  /\ tried' = [tried EXCEPT ![p] = Append(@, Attempt(p, FallbackService, e))]
  /\ Deliver(p, Failure(SendFailure(e)), tried'[p])
  /\ UNCHANGED <<queryVars, serial, microtasks, before, clock, op, req,
                 scheduled, now, loaded, known, nextId, acked, cancelAcked,
                 crashes, lost, calls>>

(***************************************************************************)
(* A crash of the process                                                  *)
(***************************************************************************)
\* the sweep of call p is between its load and its save
Sweeping(p) ==
  op[p] = "sweep" /\ pc[p] \in {"sweep_loaded", "imessage", "sms"}

\* the entries of the sweep of call p that an osascript run has delivered
DeliveredBy(p) ==
  {msgs[p][tried[p][k].entry].id :
     k \in {n \in 1..Len(tried[p]) : Ran(tried[p][n])}}

\* The process dies and is started again: every call in flight is gone
\* with its locals; the file stays as it is.
Crash ==
  /\ crashes < MaxCrashes
  /\ \E p \in Procs : pc[p] # "idle"
  /\ crashes' = crashes + 1
  /\ lost' = lost \cup UNION {DeliveredBy(p) :
                                p \in {q \in Procs : Sweeping(q)}}
  /\ pc' = [p \in Procs |-> "idle"]
  /\ op' = [p \in Procs |-> "none"]
  /\ req' = [p \in Procs |-> NoReq]
  /\ scheduled' = [p \in Procs |-> NoEntry]
  /\ msgs' = [p \in Procs |-> <<>>]
  /\ now' = [p \in Procs |-> 0]
  /\ idx' = [p \in Procs |-> 0]
  /\ cnt' = [p \in Procs |-> NoCnt]
  /\ ret' = [p \in Procs |-> NoRet]
  /\ before' = [p \in Procs |-> <<>>]
  /\ loaded' = [p \in Procs |-> <<>>]
  /\ tried' = [p \in Procs |-> <<>>]
  /\ io' = [p \in Procs |-> NoIo]
  /\ known' = [p \in Procs |-> {}]
  /\ microtasks' = <<>>
  /\ UNCHANGED <<queryVars, serial, file, clock, nextId, fired, delivered,
                 acked, cancelAcked, calls>>

(***************************************************************************)
(* The message store and its queries                                       *)
(***************************************************************************)
\* texts are sequences of one-character strings
ShortHit == <<"h", "i">>
ShortMiss == <<"n", "o">>
LongHit == <<"h", "i">> \o Rep(9, "x")

\* `timestamp / 1000000` in formatAppleTimestamp: message dates are
\* nanoseconds since 2001-01-01
NanosPerMilli == 1000000

\* one row of the SELECT over message and its joins; row k was stored at
\* millisecond k; an empty contact_id is a NULL handle
Row(k, text) ==
  [id |-> k, text |-> text, date |-> k * NanosPerMilli,
   is_from_me |-> k % 2,
   contact_id |-> IF k % 2 = 1 THEN <<>> ELSE normalizePhoneNumber(PhoneTen)]

\* the stores of the model: up to MaxRows rows; the first MaxLong are a
\* long text that holds "hi" or a short one that does not, the others a
\* short text that holds "hi"
Stores ==
  {[k \in 1..n |-> Row(k, IF k <= MaxLong THEN head[k] ELSE ShortHit)] :
     n \in 0..MaxRows, head \in [1..MaxLong -> {LongHit, ShortMiss}]}

\* ORDER BY m.date DESC: the row with the latest date first
RECURSIVE OrderByDateDesc(_)
OrderByDateDesc(rows) ==
  IF rows = <<>> THEN <<>>
  ELSE LET latest == CHOOSE i \in 1..Len(rows) :
                       \A j \in 1..Len(rows) :
                         \/ rows[j].date < rows[i].date
                         \/ rows[j].date = rows[i].date /\ i <= j
           others == [j \in 1..(Len(rows) - 1) |->
                        IF j < latest THEN rows[j] ELSE rows[j + 1]]
       IN  <<rows[latest]>> \o OrderByDateDesc(others)

\* LIMIT n, and slice(0, n)
Take(rows, n) == SubSeq(rows, 1, IF n < Len(rows) THEN n ELSE Len(rows))

\* m.text LIKE '%query%'
Like(text, query) ==
  \E i \in 0..(Len(text) - Len(query)) :
    SubSeq(text, i + 1, i + Len(query)) = query

\* formatAppleTimestamp: "Unknown" for no timestamp, else the ISO string of
\* the instant, which stands here as its milliseconds since 2001-01-01
formatAppleTimestamp(timestamp) ==
  IF timestamp = 0 THEN [unknown |-> TRUE, ms |-> 0]
  ELSE [unknown |-> FALSE, ms |-> timestamp \div NanosPerMilli]

\* `msg.contact_id || "Unknown"`
Unknown == <<"U", "n", "k", "n", "o", "w", "n">>
ContactOf(msg) == IF msg.contact_id = <<>> THEN Unknown ELSE msg.contact_id

\* (mutant) the store's unit taken for microseconds
appleTimestampInMicros(date) == date * 1000

\* appleTimestampFromDate: (date.getTime() - APPLE_EPOCH) * 1000000, for
\* an instant that stands as its milliseconds since 2001-01-01
appleTimestampFromDate(date) == date * NanosPerMilli

\* parseDate(dateStr): null where new Date(dateStr) is invalid.  A date
\* string stands as the instant it denotes, or as NaN.
parseDate(dateStr) ==
  IF dateStr = NaN THEN [null |-> TRUE, ms |-> 0]
  ELSE [null |-> FALSE, ms |-> dateStr]

(***************************************************************************)
(* The WHERE clause of a query                                             *)
(***************************************************************************)
\* one condition of `whereConditions`: its form and its operand
Cond(kind, text, num) == [kind |-> kind, text |-> text, num |-> num]

\* m.text LIKE '%query%'
TextLike(query) == Cond("m.text LIKE", query, 0)
\* m.text IS NOT NULL AND m.text != ''
TextPresent == Cond("m.text present", <<>>, 0)
\* m.text IS NOT NULL
TextNotNull == Cond("m.text IS NOT NULL", <<>>, 0)
\* m.date >= n, m.date <= n, m.date < n, m.date > n
DateFrom(n) == Cond("m.date >=", <<>>, n)
DateTo(n) == Cond("m.date <=", <<>>, n)
DateBefore(n) == Cond("m.date <", <<>>, n)
DateAfter(n) == Cond("m.date >", <<>>, n)
\* h.id LIKE '%id%'
HandleLike(id) == Cond("h.id LIKE", id, 0)
\* c.chat_identifier = 'chatId'
ChatIs(chatId) == Cond("c.chat_identifier =", chatId, 0)
\* (c.chat_identifier LIKE '%id%' OR h.id LIKE '%id%')
ChatOrHandleLike(id) == Cond("c.chat_identifier LIKE OR h.id LIKE", id, 0)
\* cmj.chat_id = n, on the inner join with chat_message_join
ChatIdIs(n) == Cond("cmj.chat_id =", <<>>, n)
\* m.ROWID = n
RowIdIs(n) == Cond("m.ROWID =", <<>>, n)

\* x LIKE '%pattern%' for a column that can be NULL (the empty sequence)
NullableLike(x, pattern) == x # <<>> /\ Like(x, pattern)

\* the row satisfies the condition; a row of no chat has chat_id 0 and a
\* NULL chat_identifier
Holds(m, c) ==
  CASE c.kind = "m.text LIKE" -> NullableLike(m.text, c.text)
    [] c.kind = "m.text present" -> m.text # <<>>
    [] c.kind = "m.text IS NOT NULL" -> m.text # <<>>
    [] c.kind = "m.date >=" -> m.date >= c.num
    [] c.kind = "m.date <=" -> m.date <= c.num
    [] c.kind = "m.date <" -> m.date < c.num
    [] c.kind = "m.date >" -> m.date > c.num
    [] c.kind = "h.id LIKE" -> NullableLike(m.contact_id, c.text)
    [] c.kind = "c.chat_identifier =" ->
         m.chat_id # 0 /\ m.chat_identifier = c.text
    [] c.kind = "c.chat_identifier LIKE OR h.id LIKE" ->
         \/ m.chat_id # 0 /\ NullableLike(m.chat_identifier, c.text)
         \/ NullableLike(m.contact_id, c.text)
    [] c.kind = "cmj.chat_id =" -> m.chat_id # 0 /\ m.chat_id = c.num
    [] c.kind = "m.ROWID =" -> m.id = c.num

\* whereConditions.join(" AND ")
Where(rows, conditions) ==
  SelectSeq(rows, LAMBDA m :
                    \A i \in 1..Len(conditions) : Holds(m, conditions[i]))

\* `if (startDate) { const date = parseDate(startDate); if (date) push }`:
\* the condition a time bound contributes: m.date >= n for a lower bound,
\* m.date <= n for an upper one
TimeBound(options, field, lower) ==
  IF field \in DOMAIN options /\ ~parseDate(options[field]).null
    THEN LET n == appleTimestampFromDate(parseDate(options[field]).ms)
         IN  <<IF lower THEN DateFrom(n) ELSE DateTo(n)>>
    ELSE <<>>

\* `if (x)` for a string argument: supplied, and not the empty string
Given(options, field) == field \in DOMAIN options /\ options[field] # <<>>

(***************************************************************************)
(* searchMessagesFTS                                                       *)
(***************************************************************************)
\* `const { limit = 50 } = options`
LexicalDefaultLimit == 50
LimitOf(options) ==
  IF "limit" \in DOMAIN options THEN options.limit ELSE LexicalDefaultLimit

\* `whereConditions` of searchMessagesFTS
LexicalWhere(query, options) ==
  <<TextLike(query)>>
    \o TimeBound(options, "startDate", TRUE)
    \o TimeBound(options, "endDate", FALSE)
    \o (IF Given(options, "contact")
          THEN <<HandleLike(normalizePhoneNumber(options.contact))>>
          ELSE <<>>)
    \o (IF Given(options, "chatId") THEN <<ChatIs(options.chatId)>> ELSE <<>>)

\* the rows of the SELECT of searchMessagesFTS over a table
LexicalSelect(rows, query, options) ==
  Take(Where(OrderByDateDesc(rows), LexicalWhere(query, options)),
       LimitOf(options))

\* the rows of the SELECT of searchMessagesFTS for a query and its options
LexicalRows(query, options) == LexicalSelect(store, query, options)

\* rows.map(...) of searchMessagesFTS
LexicalItem(msg) ==
  [id |-> msg.id, text |-> msg.text,
   timestamp |-> formatAppleTimestamp(msg.date),
   is_from_me |-> msg.is_from_me = 1,
   contact |-> ContactOf(msg)]

searchMessagesFTS(query, options) ==
  LET rows == LexicalRows(query, options)
  IN  [k \in 1..Len(rows) |-> LexicalItem(rows[k])]

(***************************************************************************)
(* getEmbedding, cosineSimilarity, semanticSearch                          *)
(***************************************************************************)
\* what a getEmbedding promise holds: not settled yet, null, or a vector
Pending == [state |-> "pending", vector |-> <<>>]
Null == [state |-> "null", vector |-> <<>>]
Vector(v) == [state |-> "vector", vector |-> v]

\* the embeddings the provider returns: nonzero vectors of one dimension,
\* at every angle to one another (the same direction, a sharp angle, a
\* right angle, the opposite direction)
Vectors == {<<1, 0>>, <<0, 1>>, <<1, 1>>, <<-1, 0>>}
Responses == {Null} \cup {Vector(v) : v \in Vectors}

\* the https requests getEmbedding makes for n texts: none without the key
Requested(n) == IF apiKey THEN n ELSE 0

\* the loop of cosineSimilarity
RECURSIVE SumTo(_, _, _)
SumTo(a, b, i) == IF i = 0 THEN 0 ELSE SumTo(a, b, i - 1) + a[i] * b[i]

\* a similarity sign * sqrt(num / den), kept exact
Zero == [sign |-> 0, num |-> 0, den |-> 1]

\* dotProduct / (Math.sqrt(normA) * Math.sqrt(normB)), for nonzero vectors
cosineSimilarity(a, b) ==
  LET dotProduct == SumTo(a, b, Len(a))
      normA == SumTo(a, a, Len(a))
      normB == SumTo(b, b, Len(a))
  IN  IF dotProduct = 0 THEN Zero
      ELSE [sign |-> IF dotProduct > 0 THEN 1 ELSE -1,
            num |-> dotProduct * dotProduct,
            den |-> normA * normB]

\* x > y for two similarities
Greater(x, y) ==
  IF x.sign # y.sign THEN x.sign > y.sign
  ELSE IF x.sign = 1 THEN x.num * y.den > y.num * x.den
  ELSE IF x.sign = -1 THEN x.num * y.den < y.num * x.den
  ELSE FALSE

\* (mutant) a candidate without embedding is scored as a perfect match
SimilarityOfFailedAsOne(q, e) ==
  IF e.state = "vector" THEN cosineSimilarity(q.vector, e.vector)
  ELSE [sign |-> 1, num |-> 1, den |-> 1]

\* `embedding ? cosineSimilarity(queryEmbedding, embedding) : 0`
SimilarityOf(q, e) ==
  IF e.state = "vector" THEN cosineSimilarity(q.vector, e.vector) ELSE Zero

\* (mutant) a sort that puts the later of two equal elements first
RECURSIVE SortLaterFirst(_)
SortLaterFirst(scored) ==
  IF scored = <<>> THEN <<>>
  ELSE LET n == Len(scored)
           x == scored[n]
           front == SortLaterFirst(SubSeq(scored, 1, n - 1))
           ahead == {i \in 1..(n - 1) :
                       \A j \in 1..i :
                         Greater(front[j].similarity, x.similarity)}
           k == Cardinality(ahead)
       IN  SubSeq(front, 1, k) \o <<x>> \o SubSeq(front, k + 1, n - 1)

\* scored.sort((a, b) => b.similarity - a.similarity): the sort is stable
RECURSIVE SortBySimilarity(_)
SortBySimilarity(scored) ==
  IF scored = <<>> THEN <<>>
  ELSE LET n == Len(scored)
           x == scored[n]
           front == SortBySimilarity(SubSeq(scored, 1, n - 1))
           ahead == {i \in 1..(n - 1) :
                       \A j \in 1..i :
                         ~Greater(x.similarity, front[j].similarity)}
           k == Cardinality(ahead)
       IN  SubSeq(front, 1, k) \o <<x>> \o SubSeq(front, k + 1, n - 1)

\* the candidates of semantic ranking: text longer than 10, the 500 latest
MinTextLength == 10
CandidateWindow == 500
CandidateRows ==
  Take(SelectSeq(OrderByDateDesc(store),
                 LAMBDA m : Len(m.text) > MinTextLength),
       CandidateWindow)

\* `limit: number = 20`
SemanticDefaultLimit == 20
SemanticLimit(a) ==
  IF "limit" \in DOMAIN a THEN a.limit ELSE SemanticDefaultLimit

\* (mutant) a fallback that does not pass its limit on
NoOptions(limit) == [o \in {} |-> 0]

\* the options of the fallback: `searchMessagesFTS(query, { limit })`
FallbackOptions(limit) == [limit |-> limit]

\* sortedMessages.map(...) of semanticSearch
SemanticItem(msg) ==
  [id |-> msg.id, text |-> msg.text,
   timestamp |-> formatAppleTimestamp(msg.date),
   is_from_me |-> msg.is_from_me = 1,
   contact |-> ContactOf(msg),
   similarity |-> msg.similarity]

\* (mutant) a ranking of the candidates that have an embedding
RankedWithEmbedding(q, rows, e, limit) ==
  LET scored == [k \in 1..Len(rows) |->
                   [id |-> rows[k].id, text |-> rows[k].text,
                    date |-> rows[k].date,
                    is_from_me |-> rows[k].is_from_me,
                    contact_id |-> rows[k].contact_id,
                    state |-> e[k].state,
                    similarity |-> SimilarityOf(q, e[k])]]
      kept == SelectSeq(scored, LAMBDA m : m.state = "vector")
      sortedMessages == Take(SortBySimilarity(kept), limit)
  IN  [k \in 1..Len(sortedMessages) |-> SemanticItem(sortedMessages[k])]

\* the ranking, once every candidate's getEmbedding has settled to e[k]
Ranked(q, rows, e, limit) ==
  LET scored == [k \in 1..Len(rows) |->
                   [id |-> rows[k].id, text |-> rows[k].text,
                    date |-> rows[k].date,
                    is_from_me |-> rows[k].is_from_me,
                    contact_id |-> rows[k].contact_id,
                    similarity |-> SimilarityOf(q, e[k])]]
      sortedMessages == Take(SortBySimilarity(scored), limit)
  IN  [k \in 1..Len(sortedMessages) |-> SemanticItem(sortedMessages[k])]

\* the calls of the model: a query, with a limit or without one
Queries == {<<"h", "i">>, <<"x", "x">>, <<"z">>}
Limits == {0, 1, MaxLong, MaxRows}
SearchArgs ==
  {[query |-> q] : q \in Queries}
    \cup {[query |-> q, limit |-> l] : q \in Queries, l \in Limits}

NoSearchRet == [results |-> <<>>, method |-> "none", error |-> NoError]
NoRequests == [query |-> 0, candidates |-> 0]
DbError == "Cannot access Messages database"

\* no search call is in flight
SearchIdle ==
  /\ spc = "idle"
  /\ sop = "none"
  /\ sargs = [query |-> <<>>]
  /\ queryEmbedding = Null
  /\ candidates = <<>>
  /\ embeddings = <<>>
  /\ sret = NoSearchRet
  /\ requests = NoRequests

\* the process runs without a key, on an empty store
NoStore == apiKey = FALSE /\ store = <<>> /\ SearchIdle

\* semanticSearch(query, limit) begins: getEmbedding(query).  Without the
\* key it gives null at once and the fallback runs its sqlite query.
SemanticStart(a) ==
  /\ spc = "idle"
  /\ sop' = "semantic"
  /\ sargs' = a
  /\ requests' = [requests EXCEPT !.query = Requested(1)]
  /\ spc' = IF apiKey THEN "query_embedding" ELSE "fts"
  /\ UNCHANGED <<apiKey, store, queryEmbedding, candidates, embeddings, sret>>
  /\ UNCHANGED <<storeVars, nameVars, toolVars>>

\* the provider answers with the embedding of the query: semanticSearch
\* runs the sqlite query for its candidates
QueryEmbeddingOk(v) ==
  /\ spc = "query_embedding"
  /\ queryEmbedding' = Vector(v)
  /\ spc' = "candidates"
  /\ UNCHANGED <<apiKey, store, sop, sargs, candidates, embeddings, sret,
                 requests>>
  /\ UNCHANGED <<storeVars, nameVars, toolVars>>

\* the request fails, or the answer holds no embedding: getEmbedding gives
\* null and the fallback runs its sqlite query
QueryEmbeddingFail ==
  /\ spc = "query_embedding"
  /\ queryEmbedding' = Null
  /\ spc' = "fts"
  /\ UNCHANGED <<apiKey, store, sop, sargs, candidates, embeddings, sret,
                 requests>>
  /\ UNCHANGED <<storeVars, nameVars, toolVars>>

\* searchMessagesFTS(query, options) as the search tool calls it
LexicalStart(a) ==
  /\ spc = "idle"
  /\ sop' = "lexical"
  /\ sargs' = a
  /\ spc' = "fts"
  /\ UNCHANGED <<apiKey, store, queryEmbedding, candidates, embeddings, sret,
                 requests>>
  /\ UNCHANGED <<storeVars, nameVars, toolVars>>

\* sqlite answers the query of searchMessagesFTS
FtsRows ==
  /\ spc = "fts"
  /\ sret' =
       IF sop = "semantic"
         THEN [NoSearchRet EXCEPT
                 !.results = searchMessagesFTS(
                               sargs.query,
                               FallbackOptions(SemanticLimit(sargs))),
                 !.method = "keyword"]
         ELSE [NoSearchRet EXCEPT
                 !.results = searchMessagesFTS(
                               sargs.query,
                               [f \in DOMAIN sargs \ {"query"} |-> sargs[f]])]
  /\ spc' = "done"
  /\ UNCHANGED <<apiKey, store, sop, sargs, queryEmbedding, candidates,
                 embeddings, requests>>
  /\ UNCHANGED <<storeVars, nameVars, toolVars>>

\* sqlite cannot open the database: queryMessagesDb throws, and so does
\* the search
DbFail ==
  /\ spc \in {"fts", "candidates"}
  /\ sret' = [NoSearchRet EXCEPT !.error = DbError]
  /\ spc' = "done"
  /\ UNCHANGED <<apiKey, store, sop, sargs, queryEmbedding, candidates,
                 embeddings, requests>>
  /\ UNCHANGED <<storeVars, nameVars, toolVars>>

\* sqlite answers the candidate query: one getEmbedding for each candidate,
\* all begun before any has settled; with no candidate the ranking is empty
CandidatesLoaded ==
  /\ spc = "candidates"
  /\ candidates' = CandidateRows
  /\ embeddings' = [k \in 1..Len(CandidateRows) |-> Pending]
  /\ requests' = [requests EXCEPT !.candidates = Requested(Len(CandidateRows))]
  /\ IF CandidateRows = <<>>
       THEN /\ sret' = [NoSearchRet EXCEPT !.method = "semantic"]
            /\ spc' = "done"
       ELSE /\ spc' = "embedding"
            /\ UNCHANGED sret
  /\ UNCHANGED <<apiKey, store, sop, sargs, queryEmbedding>>
  /\ UNCHANGED <<storeVars, nameVars, toolVars>>

\* the getEmbedding of candidate k settles to r; when it is the last one,
\* Promise.all resolves and semanticSearch ranks and returns
EmbeddingSettles(k, r) ==
  /\ spc = "embedding"
  /\ k \in 1..Len(embeddings)
  /\ embeddings[k] = Pending
  /\ embeddings' = [embeddings EXCEPT ![k] = r]
  /\ IF \A j \in 1..Len(embeddings) : j # k => embeddings[j] # Pending
       THEN /\ sret' = [NoSearchRet EXCEPT
                          !.results = Ranked(queryEmbedding, candidates,
                                             embeddings',
                                             SemanticLimit(sargs)),
                          !.method = "semantic"]
            /\ spc' = "done"
       ELSE UNCHANGED <<sret, spc>>
  /\ UNCHANGED <<apiKey, store, sop, sargs, queryEmbedding, candidates,
                 requests>>
  /\ UNCHANGED <<storeVars, nameVars, toolVars>>

\* the caller has the value of the search
SearchForget ==
  /\ spc = "done"
  /\ spc' = "idle"
  /\ sop' = "none"
  /\ sargs' = [query |-> <<>>]
  /\ queryEmbedding' = Null
  /\ candidates' = <<>>
  /\ embeddings' = <<>>
  /\ sret' = NoSearchRet
  /\ requests' = NoRequests
  /\ UNCHANGED <<apiKey, store>>
  /\ UNCHANGED <<storeVars, nameVars, toolVars>>

(***************************************************************************)
(* The phone tools                                                         *)
(***************************************************************************)
\* the strings callers pass: a lead, a first digit or none, a separator or
\* none, a run of up to MaxDigits digits, a tail
PhoneLeads == {<<>>, <<"+">>, <<"(">>, <<" ", "+">>}
PhoneFirsts == {<<>>, <<"1">>, <<"4">>}
PhoneSeparators == {<<>>, <<"-">>}
PhoneTails == {<<>>, <<"x">>}
PhoneInputs ==
  {lead \o first \o sep \o Rep(n, "5") \o tail :
     lead \in PhoneLeads, first \in PhoneFirsts, sep \in PhoneSeparators,
     n \in 0..MaxDigits, tail \in PhoneTails}

\* no phone tool has run on the string x
NoPhone(x) == [phone |-> x, normalized |-> <<>>, validation |-> <<>>]

\* validatePhoneNumber runs on the input (imessage_validate_phone,
\* scheduleMessage), then on the normalized form it returned: sendMessage
\* validates the recipient that scheduleMessage stored
ValidatePhone ==
  /\ pnorm = <<>>
  /\ Len(pval) < 2
  /\ pval # <<>> => pval[1].valid
  /\ phones' =
       [phones EXCEPT
          !.validation =
            Append(pval, validatePhoneNumber(IF pval = <<>> THEN phone
                                             ELSE pval[1].normalized))]
  /\ UNCHANGED <<searchVars, storeVars, toolVars, contacts>>

\* normalizePhoneNumber runs on the input (imessage_lookup_contact), then
\* on the string it returned, passed again as the identifier
NormalizePhone ==
  /\ pval = <<>>
  /\ Len(pnorm) < 2
  /\ phones' =
       [phones EXCEPT
          !.normalized =
            Append(pnorm, normalizePhoneNumber(IF pnorm = <<>> THEN phone
                                               ELSE pnorm[1]))]
  /\ UNCHANGED <<searchVars, storeVars, toolVars, contacts>>

(***************************************************************************)
(* Contact resolution: getContactName and the calls that fan it out        *)
(***************************************************************************)
\* the identifiers of the model: two spellings of one number ("555-222-7777"
\* and "+15552227777") and an address
ContactIds == {PhoneTen, normalizePhoneNumber(PhoneTen), EmailAddr}
\* an item with neither `contact` nor `contact_id`
NoIdentifier == <<>>

\* what the osascript run of getContactName gives: the name on stdout, an
\* empty stdout (nobody matches), or a rejection (no access, or the 5000 ms
\* timeout)
FullName == "Ann Lee"
Threw == "throws"
Answers == {FullName, "", Threw}

\* what getContactName returns: a name, or null
NullName == "null"
\* `name || undefined`
Undefined == "undefined"

\* the identifier getContactName is called with: imessage_lookup_contact
\* normalizes what is not an address, the message tools pass the handle of
\* the row as it is stored
IdentifierOf(kind, id) ==
  IF kind = "lookup" /\ ~isEmail(id) THEN normalizePhoneNumber(id) ELSE id

\* the getContactName call of an item
NoLookup ==
  [identifier |-> NoIdentifier, state |-> "skipped", queried |-> FALSE,
   result |-> NullName, seen |-> {}]

\* the results the resolves of an identifier have returned so far
CompletedFor(identifier) ==
  IF identifier \in DOMAIN completed THEN completed[identifier] ELSE {}

\* `contactCache.get(identifier) || null`
CachedResult(identifier) ==
  IF contactCache[identifier] = "" THEN NullName
  ELSE contactCache[identifier]

\* getContactName up to its await: the cached value if the Map has the
\* identifier, else the osascript run begins
getContactName(identifier) ==
  IF identifier \in DOMAIN contactCache
    THEN [identifier |-> identifier, state |-> "returned", queried |-> FALSE,
          result |-> CachedResult(identifier),
          seen |-> CompletedFor(identifier)]
    ELSE [identifier |-> identifier, state |-> "pending", queried |-> TRUE,
          result |-> NullName, seen |-> CompletedFor(identifier)]

\* contactCache.set(identifier, name), or contactCache.set(identifier, "")
\* after an empty stdout or a rejection
CachedAnswer(cache, identifier, answer) ==
  [i \in DOMAIN cache \cup {identifier} |->
     IF i = identifier
       THEN IF answer \in {"", Threw} THEN "" ELSE answer
       ELSE cache[i]]

\* what getContactName returns after its osascript run
ResultOf(answer) == IF answer \in {"", Threw} THEN NullName ELSE answer

\* the calls of the items: none for an item without identifier
LookupsOf(kind, ids) ==
  [k \in 1..Len(ids) |->
     IF ids[k] = NoIdentifier THEN NoLookup
     ELSE getContactName(IdentifierOf(kind, ids[k]))]

\* the items whose call is in the given state, in input order
RECURSIVE InState(_, _, _)
InState(ls, st, k) ==
  IF k > Len(ls) THEN <<>>
  ELSE (IF ls[k].state = st THEN <<k>> ELSE <<>>) \o InState(ls, st, k + 1)

\* `{ ...item, contact_name: name || undefined }`, or the item as it is
EnrichedItem(k, id, l) ==
  IF l.state = "skipped" THEN [id |-> k, contact |-> id]
  ELSE [id |-> k, contact |-> id,
        contact_name |-> IF l.result = NullName THEN Undefined ELSE l.result]

\* (mutant) the items as their calls returned, first to return first
enrichAsCompleted(ids, ls, ord) ==
  [j \in 1..Len(ord) |-> EnrichedItem(ord[j], ids[ord[j]], ls[ord[j]])]

\* Promise.all(items.map(...)): one result for each item, in input order,
\* whatever the order `ord` in which the calls returned
enrichWithContactNames(ids, ls, ord) ==
  [k \in 1..Len(ids) |-> EnrichedItem(k, ids[k], ls[k])]

\* the value of imessage_lookup_contact
LookupContact(id, l) ==
  [identifier |-> id, normalized |-> l.identifier,
   name |-> l.result, found |-> l.result # NullName]

\* the value the tool call resolves to
NoContactRet == [returned |-> FALSE, value |-> <<>>]
ContactRet(kind, ids, ls, ord) ==
  [returned |-> TRUE,
   value |-> IF kind = "lookup" THEN <<LookupContact(ids[1], ls[1])>>
             ELSE enrichWithContactNames(ids, ls, ord)]

\* the results that have been returned for each identifier, once the calls
\* of `ls` listed in `ks` have returned too
CompletedWith(ls, ks) ==
  [i \in DOMAIN completed \cup {ls[k].identifier : k \in ks} |->
     CompletedFor(i)
       \cup {ls[k].result : k \in {j \in ks : ls[j].identifier = i}}]

Range(seq) == {seq[k] : k \in 1..Len(seq)}

\* the batches of the message tools: the handles of up to MaxItems rows;
\* those of enrichWithContactNames can hold items without identifier
RECURSIVE Batches(_, _)
Batches(S, n) ==
  IF n = 0 THEN {<<>>}
  ELSE LET shorter == Batches(S, n - 1)
       IN  shorter \cup {Append(b, x) : b \in {c \in shorter : Len(c) = n - 1},
                                        x \in S}

ContactInputs(kind) ==
  IF kind = "lookup" THEN {<<i>> : i \in ContactIds}
  ELSE IF kind = "recent" THEN Batches(ContactIds, MaxItems)
  ELSE Batches(ContactIds \cup {NoIdentifier}, MaxItems)

ContactKinds == {"lookup", "recent", "enrich"}

\* no call that resolves names is in flight; the Map is `cache`
ContactsIdle(cache, done) ==
  [contactCache |-> cache, completed |-> done, pc |-> "idle",
   kind |-> "none", items |-> <<>>, lookups |-> <<>>, ret |-> NoContactRet,
   order |-> <<>>]

\* the process has started: the Map is empty
NoContacts == contacts = ContactsIdle(<<>>, <<>>)

\* A tool call that resolves names begins: every getContactName call runs
\* up to its await before anything else does.  The calls the Map answers
\* return in the microtasks that follow; when no osascript run is begun,
\* the tool call returns there too.
ResolveStart(kind, ids) ==
  LET ls == LookupsOf(kind, ids)
      skipped == InState(ls, "skipped", 1)
      hits == InState(ls, "returned", 1)
      ord == skipped \o hits
      waits == \E k \in 1..Len(ls) : ls[k].state = "pending"
  IN  /\ cpc = "idle"
      /\ contacts' =
           [contactCache |-> contactCache,
            completed |-> CompletedWith(ls, Range(hits)),
            pc |-> IF waits THEN "waiting" ELSE "done",
            kind |-> kind, items |-> ids, lookups |-> ls,
            ret |-> IF waits THEN NoContactRet
                    ELSE ContactRet(kind, ids, ls, ord),
            order |-> ord]
      /\ UNCHANGED <<searchVars, storeVars, toolVars, phones>>

\* The osascript run of item k ends with `answer`: getContactName writes
\* the Map and returns; when it is the last one, Promise.all resolves and
\* the tool call returns.
ResolveSettles(k, answer) ==
  /\ cpc = "waiting"
  /\ k \in 1..Len(lookups)
  /\ lookups[k].state = "pending"
  /\ LET l == [lookups[k] EXCEPT !.state = "returned",
                                 !.result = ResultOf(answer)]
         ls == [lookups EXCEPT ![k] = l]
         ord == Append(order, k)
         waits == \E j \in 1..Len(ls) : ls[j].state = "pending"
     IN  contacts' =
           [contactCache |-> CachedAnswer(contactCache, l.identifier, answer),
            completed |-> CompletedWith(ls, {k}),
            pc |-> IF waits THEN "waiting" ELSE "done",
            kind |-> ckind, items |-> items, lookups |-> ls,
            ret |-> IF waits THEN NoContactRet
                    ELSE ContactRet(ckind, items, ls, ord),
            order |-> ord]
  /\ UNCHANGED <<searchVars, storeVars, toolVars, phones>>

\* the caller has the value of the tool call; the Map stays
ContactForget ==
  /\ cpc = "done"
  /\ contacts' = ContactsIdle(contactCache, completed)
  /\ UNCHANGED <<searchVars, storeVars, toolVars, phones>>

(***************************************************************************)
(* The tools that read the message store                                   *)
(***************************************************************************)
\* the rows of the largest table of the model
MaxMessages == 4
\* the latest instant a caller converts, in milliseconds since 2001-01-01
MaxMillis == 40

\* h.id of row k: an address, a phone number, or NULL
HandleOf(k) ==
  CASE k % 3 = 1 -> EmailAddr
    [] k % 3 = 2 -> normalizePhoneNumber(PhoneTen)
    [] OTHER -> <<>>

\* c.chat_identifier of chat n: the address or the number of the other side
ChatIdentifier(n) ==
  CASE n = 1 -> EmailAddr
    [] n = 2 -> normalizePhoneNumber(PhoneTen)
    [] OTHER -> <<>>

\* one row of message with its joins: handle, chat_message_join and chat;
\* chat 0 is a message that no chat_message_join row names
Message(k, date, chat, text) ==
  [id |-> k, text |-> text, date |-> appleTimestampFromDate(date),
   is_from_me |-> k % 2, contact_id |-> HandleOf(k), chat_id |-> chat,
   chat_identifier |-> ChatIdentifier(chat)]

\* how the dates of a table of n rows run against its ROWIDs: with them,
\* against them, or in pairs of equal dates
DatePlans == {"rising", "falling", "paired"}
DateOf(plan, k, n) ==
  CASE plan = "rising" -> k
    [] plan = "falling" -> n + 1 - k
    [] OTHER -> (k + 1) \div 2

\* how the rows fall into chats: all in chat 1, or spread over no chat,
\* chat 1 and chat 2
ChatPlans == {"single", "spread"}
ChatOf(plan, k) == IF plan = "single" THEN 1 ELSE k % 3

\* the tables of the model; row `blank`, if any, has a NULL text
Tables ==
  {[k \in 1..n |->
      Message(k, DateOf(dates, k, n), ChatOf(chats, k),
              IF k = blank THEN <<>> ELSE ShortHit)] :
     n \in 0..MaxMessages, dates \in DatePlans, chats \in ChatPlans,
     blank \in 0..1}

\* ORDER BY m.date ASC: the row with the earliest date first
RECURSIVE OrderByDateAsc(_)
OrderByDateAsc(rows) ==
  IF rows = <<>> THEN <<>>
  ELSE LET earliest == CHOOSE i \in 1..Len(rows) :
                         \A j \in 1..Len(rows) :
                           \/ rows[i].date < rows[j].date
                           \/ rows[j].date = rows[i].date /\ i <= j
           others == [j \in 1..(Len(rows) - 1) |->
                        IF j < earliest THEN rows[j] ELSE rows[j + 1]]
       IN  <<rows[earliest]>> \o OrderByDateAsc(others)

\* JOIN chat_message_join cmj ON m.ROWID = cmj.message_id
InChat(rows) == SelectSeq(rows, LAMBDA m : m.chat_id # 0)

(***************************************************************************)
(* queryMessagesDb and parseDbResult                                       *)
(***************************************************************************)
\* what sqlite3 -json writes for a query: a JSON array of rows, nothing,
\* text that is not JSON, or JSON that is not an array
Outputs == {"rows", "empty", "unparseable", "object"}

\* result.stdout for a query that selects `rows`, as the store answers it;
\* sqlite3 writes nothing where the query selects no row
Stdout(output, rows) ==
  IF output = "rows" /\ rows # <<>> THEN [output |-> "rows", rows |-> rows]
  ELSE IF output = "rows" THEN [output |-> "empty", rows |-> <<>>]
  ELSE [output |-> output, rows |-> <<>>]

\* parseDbResult(result): [] for blank and for unparseable text, and
\* otherwise whatever JSON.parse gives, an array or not
parseDbResult(result) ==
  CASE result.output = "empty" -> [array |-> TRUE, rows |-> <<>>]
    [] result.output = "unparseable" -> [array |-> TRUE, rows |-> <<>>]
    [] result.output = "rows" -> [array |-> TRUE, rows |-> result.rows]
    [] OTHER -> [array |-> FALSE, rows |-> <<>>]

\* rows.map on a value that is not an array, and its like
NotAnArray == "TypeError: rows.map is not a function"
MessageNotFound == "Message not found"

(***************************************************************************)
(* getRecentMessages, getChatMessages, getMessageContext                   *)
(***************************************************************************)
\* `const { limit = 50 } = options` of getChatMessages, `limit = 20` of
\* getRecentMessages, `before = 5` and `args.before || 5`
RecentDefaultLimit == 20
ChatDefaultLimit == 50
ContextDefault == 5

\* `whereConditions` of getRecentMessages
RecentWhere(options) ==
  <<TextPresent>>
    \o TimeBound(options, "startDate", TRUE)
    \o TimeBound(options, "endDate", FALSE)

\* `whereConditions` of getChatMessages
ChatWhere(chatId, options) ==
  LET normalizedId == IF isEmail(chatId) THEN chatId
                      ELSE normalizePhoneNumber(chatId)
  IN  <<ChatOrHandleLike(normalizedId), TextPresent>>
        \o TimeBound(options, "startDate", TRUE)
        \o TimeBound(options, "endDate", FALSE)

\* `args.limit || 20`, `args.before || 5`: the default for no value and
\* for 0
OrDefault(a, field, default) ==
  IF field \in DOMAIN a /\ a[field] # 0 THEN a[field] ELSE default

\* `const { limit = 50 } = options`
LimitOr(a, default) == IF "limit" \in DOMAIN a THEN a.limit ELSE default

\* formatMessage of getMessageContext
formatMessage(msg) ==
  [id |-> msg.id, text |-> msg.text,
   timestamp |-> formatAppleTimestamp(msg.date),
   is_from_me |-> msg.is_from_me = 1,
   contact |-> ContactOf(msg)]

\* the item getChatMessages builds from a row: `msg.contact_id || chatId`
ChatItem(msg, chatId) ==
  [formatMessage(msg) EXCEPT
     !.contact = IF msg.contact_id = <<>> THEN chatId ELSE msg.contact_id]

Reverse(s) == [k \in 1..Len(s) |-> s[Len(s) + 1 - k]]
Map(s, f(_)) == [k \in 1..Len(s) |-> f(s[k])]

\* the rows each query of the tools selects from a table
TargetRows(rows, messageId) == Where(InChat(rows), <<RowIdIs(messageId)>>)
BeforeRows(rows, target, limit) ==
  Take(Where(OrderByDateDesc(InChat(rows)),
             <<ChatIdIs(target.chat_id), DateBefore(target.date),
               TextNotNull>>),
       limit)
AfterRows(rows, target, limit) ==
  Take(Where(OrderByDateAsc(InChat(rows)),
             <<ChatIdIs(target.chat_id), DateAfter(target.date),
               TextNotNull>>),
       limit)
MessageRows(rows, messageId) == Where(rows, <<RowIdIs(messageId)>>)

\* the target row of getMessageContext before the target query answers
NoTarget == [date |-> 0, chat_id |-> 0]

\* the value a reading tool resolves to; the fields a tool does not set
\* keep these.  `message` holds the target, or nothing for undefined.
NoQueryRet ==
  [rows |-> <<>>, error |-> NoError, before |-> <<>>, message |-> <<>>,
   after |-> <<>>, stamp |-> 0, time |-> formatAppleTimestamp(0)]

\* no tool reads the message store
NoQuery ==
  [pc |-> "idle", tool |-> "none", args |-> <<>>, where |-> <<>>,
   target |-> NoTarget, issued |-> <<>>, outputs |-> <<>>,
   ret |-> NoQueryRet]

\* the arguments callers pass: time bounds that parse and that do not, an
\* address and a phone number as identifiers
DateStrings == {NaN, 2}
Identifiers == {EmailAddr, PhoneTen}
Optional(field, values) ==
  {<<>>} \cup {[f \in {field} |-> v] : v \in values}
Merge(a, b) ==
  [f \in DOMAIN a \cup DOMAIN b |-> IF f \in DOMAIN a THEN a[f] ELSE b[f]]
TimeOptions ==
  {Merge(s, e) : s \in Optional("startDate", DateStrings),
                 e \in Optional("endDate", DateStrings)}
SearchOptions ==
  {Merge([query |-> ShortHit], Merge(Merge(t, c), Merge(i, l))) :
     t \in TimeOptions, c \in Optional("contact", Identifiers),
     i \in Optional("chatId", {EmailAddr}), l \in Optional("limit", {1})}
RecentOptions ==
  {Merge(t, l) : t \in TimeOptions, l \in Optional("limit", {0, 1})}
ChatOptions ==
  {Merge(Merge(t, l), [chat_id |-> i]) :
     t \in TimeOptions, l \in Optional("limit", {1}), i \in Identifiers}
ContextArgs ==
  {Merge(Merge(b, a), [message_id |-> id]) :
     b \in Optional("before", 0..2), a \in Optional("after", 0..1),
     id \in 1..(MaxMessages + 1)}

\* a tool call begins: it builds its WHERE clause and runs its query
Begin(tool, a, where, first) ==
  /\ qpc = "idle"
  /\ queries' = [NoQuery EXCEPT !.pc = first, !.tool = tool, !.args = a,
                                !.where = where, !.issued = <<first>>]
  /\ UNCHANGED <<searchVars, storeVars, nameVars, logfile>>

\* imessage_search: searchMessagesFTS(args.query, {limit, startDate,
\* endDate, contact, chatId})
SearchStart(a) ==
  Begin("search", a, LexicalWhere(a.query, a), "rows")

\* imessage_get_recent: getRecentMessages(args.limit || 20, {startDate,
\* endDate})
RecentStart(a) == Begin("recent", a, RecentWhere(a), "rows")

\* imessage_get_chat: getChatMessages(args.chat_id, {limit, startDate,
\* endDate})
ChatStart(a) == Begin("chat", a, ChatWhere(a.chat_id, a), "rows")

\* the rows the store holds for the query of the call, within its LIMIT
Selected ==
  CASE qtool = "search" -> LexicalSelect(store, qargs.query, qargs)
    [] qtool = "recent" ->
         Take(Where(OrderByDateDesc(store), qwhere),
              OrDefault(qargs, "limit", RecentDefaultLimit))
    [] qtool = "chat" ->
         Take(Where(OrderByDateDesc(store), qwhere),
              LimitOr(qargs, ChatDefaultLimit))

\* rows.map(...) of the call
Items(rows) ==
  IF qtool = "chat"
    THEN [k \in 1..Len(rows) |-> ChatItem(rows[k], qargs.chat_id)]
    ELSE Map(rows, formatMessage)

\* the call ends with a value, or with an error thrown, after sqlite3 has
\* answered its queries in flight with `outputs`
Ends(outputs, r) ==
  queries' = [queries EXCEPT !.pc = "done", !.ret = r,
                             !.outputs = @ \o outputs]

\* sqlite3 answers the query of a search, a recent or a chat call
QueryAnswers(output) ==
  /\ qpc = "rows"
  /\ LET rows == parseDbResult(Stdout(output, Selected))
     IN  IF rows.array
           THEN Ends(<<output>>, [NoQueryRet EXCEPT !.rows = Items(rows.rows)])
           ELSE Ends(<<output>>, [NoQueryRet EXCEPT !.error = NotAnArray])
  /\ UNCHANGED <<searchVars, storeVars, nameVars, logfile>>

\* sqlite3 cannot open the database: queryMessagesDb throws, and so does
\* the tool
QueryFails ==
  /\ qpc \in {"rows", "target", "around"}
  /\ Ends(<<>>, [NoQueryRet EXCEPT !.error = DbError])
  /\ UNCHANGED <<searchVars, storeVars, nameVars, logfile>>

\* imessage_get_context: getMessageContext(args.message_id,
\* args.before || 5, args.after || 5) runs its target query
ContextStart(a) == Begin("context", a, <<RowIdIs(a.message_id)>>, "target")

\* sqlite3 answers the target query: not found, or the three queries of
\* Promise.all begin
TargetAnswers(output) ==
  /\ qpc = "target"
  /\ LET targetRows ==
           parseDbResult(Stdout(output, TargetRows(store, qargs.message_id)))
     IN  IF ~targetRows.array
           THEN Ends(<<output>>, [NoQueryRet EXCEPT !.error = NotAnArray])
         ELSE IF Len(targetRows.rows) = 0
           THEN Ends(<<output>>, [NoQueryRet EXCEPT !.error = MessageNotFound])
         ELSE queries' =
                [queries EXCEPT
                   !.pc = "around",
                   !.target = [date |-> targetRows.rows[1].date,
                               chat_id |-> targetRows.rows[1].chat_id],
                   !.issued = @ \o <<"before", "after", "message">>,
                   !.outputs = @ \o <<output>>]
  /\ UNCHANGED <<searchVars, storeVars, nameVars, logfile>>

\* sqlite3 has answered the before, the after and the message query
AroundAnswers(b, a, m) ==
  /\ qpc = "around"
  /\ LET beforeResult ==
           parseDbResult(Stdout(b, BeforeRows(
             store, qtarget, OrDefault(qargs, "before", ContextDefault))))
         afterResult ==
           parseDbResult(Stdout(a, AfterRows(
             store, qtarget, OrDefault(qargs, "after", ContextDefault))))
         messageResult ==
           parseDbResult(Stdout(m, MessageRows(store, qargs.message_id)))
     IN  IF beforeResult.array /\ afterResult.array /\ messageResult.array
           THEN Ends(<<b, a, m>>,
                     [NoQueryRet EXCEPT
                        !.before = Reverse(Map(beforeResult.rows,
                                               formatMessage)),
                        !.after = Map(afterResult.rows, formatMessage),
                        !.message = Take(Map(messageResult.rows,
                                             formatMessage), 1)])
           ELSE Ends(<<b, a, m>>, [NoQueryRet EXCEPT !.error = NotAnArray])
  /\ UNCHANGED <<searchVars, storeVars, nameVars, logfile>>

\* a time bound is encoded: appleTimestampFromDate(date)
EncodeDate(t) ==
  /\ qpc = "idle"
  /\ queries' = [NoQuery EXCEPT
                   !.pc = "encoded", !.tool = "convert",
                   !.args = [date |-> t],
                   !.ret = [NoQueryRet EXCEPT
                              !.stamp = appleTimestampFromDate(t)]]
  /\ UNCHANGED <<searchVars, storeVars, nameVars, logfile>>

\* the m.date that holds the encoded instant is formatted for a result
DecodeStamp ==
  /\ qpc = "encoded"
  /\ Ends(<<>>, [qret EXCEPT !.time = formatAppleTimestamp(qret.stamp)])
  /\ UNCHANGED <<searchVars, storeVars, nameVars, logfile>>

\* the tool call is over
QueryForget ==
  /\ qpc = "done"
  /\ queries' = NoQuery
  /\ UNCHANGED <<searchVars, storeVars, nameVars, logfile>>

(***************************************************************************)
(* The schedule log as a file                                              *)
(***************************************************************************)
\* what SCHEDULED_MESSAGES_PATH can hold: the JSON of a log (the entries
\* of `file`), no file, text that is not JSON, JSON that is not an array
Disks == {"entries", "missing", "unparseable", "object"}

\* loadScheduledMessages() on a disk d whose log, if it holds one, is f:
\* [] where the file is missing or JSON.parse throws, and otherwise
\* whatever JSON.parse gives, an array or not
loadFrom(d, f) ==
  CASE d = "entries" -> [array |-> TRUE, messages |-> f]
    [] d = "missing" -> [array |-> TRUE, messages |-> <<>>]
    [] d = "unparseable" -> [array |-> TRUE, messages |-> <<>>]
    [] OTHER -> [array |-> FALSE, messages |-> <<>>]

\* messages.push, messages.findIndex, `for (const msg of messages)` on a
\* value that is not an array
NotALog == "TypeError: messages is not an array"

\* what a schedule store call on the file gave: the value it returned
\* (`list` with `array`: the log getScheduledMessages returned, or that it
\* returned what is not an array), or the error it threw
NoLogRet ==
  [success |-> FALSE, error |-> NoError, threw |-> FALSE, array |-> TRUE,
   list |-> <<>>, id |-> NoId, sent |-> 0, failed |-> 0]
NoLog == [disk |-> "entries", op |-> "none", ret |-> NoLogRet]

\* the call throws before it writes
LogThrows(name, e) ==
  /\ logfile' = [logfile EXCEPT
                   !.op = name,
                   !.ret = [NoLogRet EXCEPT !.threw = TRUE, !.error = e]]
  /\ UNCHANGED file

\* the call returns without a write
LogReturns(name, r) ==
  /\ logfile' = [logfile EXCEPT !.op = name, !.ret = r]
  /\ UNCHANGED file

\* saveScheduledMessages(m), and the call returns
LogSaves(name, m, r) ==
  /\ file' = SavedLog(m)
  /\ logfile' = [disk |-> "entries", op |-> name, ret |-> r]

\* what the log calls leave alone
logFrame ==
  <<searchVars, nameVars, queries, serial, microtasks, clock, pc, op, req,
    scheduled, msgs, now, idx, cnt, ret, before, loaded, tried, io, known,
    fired, delivered, acked, cancelAcked, crashes, lost, calls>>

\* getScheduledMessages(), run to its end
ListLog ==
  /\ LET messages == loadFrom(disk, file)
     IN  LogReturns("list", [NoLogRet EXCEPT !.success = TRUE,
                                             !.array = messages.array,
                                             !.list = messages.messages])
  /\ UNCHANGED nextId
  /\ UNCHANGED logFrame

\* cancelScheduledMessage(id), run to its end
CancelLog(id) ==
  /\ LET messages == loadFrom(disk, file)
         index == findIndex(messages.messages, id)
     IN  IF ~messages.array THEN LogThrows("cancel", NotALog)
         ELSE IF index = 0
           THEN LogReturns("cancel", [NoLogRet EXCEPT !.error = NotFound])
         ELSE IF messages.messages[index].status # "pending"
           THEN LogReturns(
                  "cancel",
                  [NoLogRet EXCEPT
                     !.error = CannotCancel(messages.messages[index].status)])
         ELSE LogSaves("cancel",
                       [messages.messages EXCEPT
                          ![index].status = CancelledStatus],
                       [NoLogRet EXCEPT !.success = TRUE])
  /\ UNCHANGED nextId
  /\ UNCHANGED logFrame

\* scheduleMessage(recipient, message, scheduledTime), run to its end
ScheduleLog(recipient, message, scheduledTime) ==
  /\ nextId <= MaxScheduled
  /\ LET e == ScheduleError(recipient, scheduledTime, clock)
         messages == loadFrom(disk, file)
         entry == [id |-> nextId,
                   recipient |-> CheckRecipient(recipient).normalized,
                   message |-> message, scheduledTime |-> scheduledTime,
                   created |-> clock, status |-> "pending",
                   error |-> NoError]
     IN  IF e # NoError
           THEN LogReturns("schedule", [NoLogRet EXCEPT !.error = e])
         ELSE IF ~messages.array THEN LogThrows("schedule", NotALog)
         ELSE LogSaves("schedule", Append(messages.messages, entry),
                       [NoLogRet EXCEPT !.success = TRUE, !.id = entry.id])
  /\ nextId' = IF ScheduleError(recipient, scheduledTime, clock) = NoError
                 THEN nextId + 1 ELSE nextId
  /\ UNCHANGED logFrame

\* sendScheduledMessages(), run to its end; sendMessage succeeds for the
\* entries of `ok` and fails with e for the others
SweepLog(ok, e) ==
  /\ LET messages == loadFrom(disk, file)
         m == messages.messages
         due == {i \in 1..Len(m) : ToSend(m[i], clock)}
         swept == [i \in 1..Len(m) |->
                     IF i \notin due THEN m[i]
                     ELSE IF i \in ok THEN MarkSent(m, i)[i]
                     ELSE MarkFailed(m, i, SendFailure(e))[i]]
     IN  IF ~messages.array THEN LogThrows("sweep", NotALog)
         ELSE /\ ok \subseteq due
              /\ LogSaves("sweep", swept,
                          [NoLogRet EXCEPT
                             !.success = TRUE,
                             !.sent = Cardinality(ok),
                             !.failed = Cardinality(due \ ok)])
  /\ UNCHANGED nextId
  /\ UNCHANGED logFrame

\* no tool reads the message store, and the log file holds a log
NoTools == queries = NoQuery /\ logfile = NoLog

(***************************************************************************)
(* Specifications                                                          *)
(***************************************************************************)
\* One step of a schedule store call p that validation lets through.
\* R: the recipients callers pass, E: the messages of a failing SMS run,
\* d: how far the clock can move while scheduleMessage builds its entry.
StoreStep(p, R, E, d) ==
  \/ \E r \in R, b \in Bodies, w \in TimeInputs(clock) :
       \E tCreated \in clock..(clock + d) :
         /\ tCreated <= MaxClock
         /\ ScheduleLoad(p, r, b, w, tCreated)
  \/ ScheduleSave(p)
  \/ getScheduledMessages(p)
  \/ \E id \in Ids : CancelLoad(p, id)
  \/ CancelFinish(p)
  \/ SweepLoad(p)
  \/ SweepBegin(p)
  \/ IMessageOk(p)
  \/ IMessageFail(p)
  \/ SmsOk(p)
  \/ \E e \in E : SmsFail(p, e)

\* The tool calls of different requests interleave at their awaits.
RaceRecipients == {PhoneTen}
RaceErrors == {"timeout"}

\* no phone tool and no contact resolution has run
NoNames == phones = NoPhone(<<>>) /\ NoContacts

Init == serial = FALSE /\ Started /\ NoStore /\ NoNames /\ NoTools

Next ==
  \/ \E p \in Procs : Forget(p)
  \/ Tick
  \/ \E p \in Procs : StoreStep(p, RaceRecipients, RaceErrors, 0)

Spec == Init /\ [][Next]_vars

\* One tool call at a time: a call begins when no other is in flight.
InitSeq == serial = TRUE /\ Started /\ NoStore /\ NoNames /\ NoTools

NextSeq ==
  \/ \E p \in Procs : Forget(p)
  \/ Tick
  \/ \E p \in Procs : StoreStep(p, Recipients, SmsErrors, MaxClock)
  \/ \E p \in Procs :
       \E r \in Recipients, b \in Bodies, w \in TimeInputs(clock) :
         ScheduleReject(p, r, b, w)
  \/ \E p \in Procs : \E r \in Recipients, b \in Bodies : SendCall(p, r, b)

SpecSeq == InitSeq /\ [][NextSeq]_vars

\* One tool call at a time, and the process can crash.
NextCrash ==
  \/ \E p \in Procs : Forget(p)
  \/ Tick
  \/ \E p \in Procs : StoreStep(p, RaceRecipients, RaceErrors, 0)
  \/ Crash

SpecCrash == InitSeq /\ [][NextCrash]_vars

\* The searches, one call at a time, over every store of the model, with
\* the key and without it.
InitSearch ==
  /\ serial = TRUE
  /\ Started
  /\ apiKey \in BOOLEAN
  /\ store \in Stores
  /\ SearchIdle
  /\ NoNames
  /\ NoTools

NextSearch ==
  \/ \E a \in SearchArgs : SemanticStart(a)
  \/ \E v \in Vectors : QueryEmbeddingOk(v)
  \/ QueryEmbeddingFail
  \/ \E a \in SearchArgs : LexicalStart(a)
  \/ FtsRows
  \/ DbFail
  \/ CandidatesLoaded
  \/ \E k \in 1..MaxLong : \E r \in Responses : EmbeddingSettles(k, r)
  \/ SearchForget

SpecSearch == InitSearch /\ [][NextSearch]_vars

\* The phone tools, over every input of the model.
InitPhone ==
  /\ serial = TRUE
  /\ Started
  /\ NoStore
  /\ NoContacts
  /\ phones \in {NoPhone(x) : x \in PhoneInputs}
  /\ NoTools

NextPhone ==
  \/ ValidatePhone
  \/ NormalizePhone

SpecPhone == InitPhone /\ [][NextPhone]_vars

\* The tools that resolve names, one tool call at a time; the getContactName
\* calls of one tool call run together.
InitContacts ==
  /\ serial = TRUE
  /\ Started
  /\ NoStore
  /\ NoNames
  /\ NoTools

NextContacts ==
  \/ \E kind \in ContactKinds : \E ids \in ContactInputs(kind) :
       ResolveStart(kind, ids)
  \/ \E k \in 1..MaxItems : \E answer \in Answers : ResolveSettles(k, answer)
  \/ ContactForget

SpecContacts == InitContacts /\ [][NextContacts]_vars

\* The tools that read the message store, one call at a time, over every
\* table of the model.
InitQuery ==
  /\ serial = TRUE
  /\ Started
  /\ apiKey = FALSE
  /\ store \in Tables
  /\ SearchIdle
  /\ NoNames
  /\ NoTools

NextQuery ==
  \/ \E t \in 0..MaxMillis : EncodeDate(t)
  \/ DecodeStamp
  \/ \E a \in SearchOptions : SearchStart(a)
  \/ \E a \in RecentOptions : RecentStart(a)
  \/ \E a \in ChatOptions : ChatStart(a)
  \/ \E output \in Outputs : QueryAnswers(output)
  \/ QueryFails
  \/ \E a \in ContextArgs : ContextStart(a)
  \/ \E output \in Outputs : TargetAnswers(output)
  \/ \E b \in Outputs, a \in Outputs, m \in Outputs : AroundAnswers(b, a, m)
  \/ QueryForget

SpecQuery == InitQuery /\ [][NextQuery]_vars

\* The schedule store calls, one at a time and each run to its end, on a
\* log file that holds a log, is missing, or holds something else.
InitLog ==
  /\ serial = TRUE
  /\ Started
  /\ NoStore
  /\ NoNames
  /\ queries = NoQuery
  /\ logfile \in {[NoLog EXCEPT !.disk = d] : d \in Disks}

NextLog ==
  \/ Tick
  \/ ListLog
  \/ \E id \in Ids : CancelLog(id)
  \/ \E r \in Recipients, b \in Bodies, w \in TimeInputs(clock) :
       ScheduleLog(r, b, w)
  \/ \E ok \in SUBSET (1..MaxScheduled), e \in SmsErrors : SweepLog(ok, e)

SpecLog == InitLog /\ [][NextLog]_vars

(***************************************************************************)
(* The schedule store, one tool call at a time                             *)
(***************************************************************************)
\* call p has returned from operation name
Returned(p, name) == pc[p] = "done" /\ op[p] = name

\* C1: with the calls run one at a time, an entry of the persisted log
\* whose status is sent, failed or cancelled keeps its place, its id and that
\* status in every step: no step takes it to pending or to another terminal
\* status.
C1_TerminalStatusIsFinal ==
  [][\A i \in 1..Len(file) :
       file[i].status \in Terminal =>
         /\ i <= Len(file')
         /\ file'[i].id = file[i].id
         /\ file'[i].status = file[i].status]_vars

\* a sweep has returned that loaded a terminal entry beside a pending one,
\* and sent or failed the pending one
C1_Witness ==
  \E p \in Procs :
    /\ Returned(p, "sweep")
    /\ \E i, j \in 1..Len(loaded[p]) :
         /\ loaded[p][i].status \in Terminal
         /\ file[i].status = loaded[p][i].status
         /\ loaded[p][j].status = "pending"
         /\ file[j].status \in {"sent", "failed"}

\* the entry with id u in log m has status st
HasStatus(m, u, st) == \E i \in 1..Len(m) : m[i].id = u /\ m[i].status = st

\* C2: once cancel(id) has returned success, every list() that begins later
\* shows that entry with status cancelled, whatever the other calls of the
\* schedule store do in between, a sweep that was awaiting osascript when the
\* cancel ran included.
C2_CancelledIsListed ==
  \A p \in Procs :
    Returned(p, "list") =>
      \A u \in known[p] : HasStatus(ret[p].list, u, "cancelled")

(***************************************************************************)
(* The sweep and a crash of the process                                    *)
(***************************************************************************)
\* the sweep of call p ran osascript for the entry with id u
Attempted(p, u) ==
  \E k \in 1..Len(tried[p]) :
    /\ tried[p][k].entry \in 1..Len(msgs[p])
    /\ msgs[p][tried[p][k].entry].id = u

\* C3: a sweep writes the log exactly once, after its last osascript run:
\* while it is in flight it has written nothing, and the file still holds
\* what the sweep loaded, so that an entry osascript has delivered is still
\* pending there; when it returns it has written once, with all its
\* osascript runs before the write.  An entry delivered by a sweep that a
\* crash cut short is sent again by the next sweep that loads it pending:
\* it gets to sent or failed only through a second transport call.
C3_SingleWriteAtLeastOnce ==
  /\ \A p \in Procs :
       /\ Sweeping(p) =>
            /\ io[p].writes = 0
            /\ file = loaded[p]
            /\ \A u \in DeliveredBy(p) : HasStatus(file, u, "pending")
       /\ Returned(p, "sweep") =>
            /\ io[p].writes = 1
            /\ io[p].triedAtWrite = Len(tried[p])
            /\ \A u \in lost :
                 HasStatus(loaded[p], u, "pending") => Attempted(p, u)
  /\ \A u \in lost :
       HasStatus(file, u, "sent") \/ HasStatus(file, u, "failed")
         => fired[u] >= 2

\* after a crash that lost a delivered entry, the next sweep has sent the
\* entry a second time and returned
C3_Witness ==
  \E p \in Procs : \E u \in lost :
    /\ Returned(p, "sweep")
    /\ HasStatus(loaded[p], u, "pending")
    /\ HasStatus(file, u, "sent")
    /\ fired[u] = 2
    /\ crashes = 1

(***************************************************************************)
(* The schedule store, tool calls interleaved                              *)
(***************************************************************************)
\* the sweep of call p awaits osascript
AwaitingTransport(p) == op[p] = "sweep" /\ pc[p] \in {"imessage", "sms"}

\* the sweep of call p loaded entry i as pending and due at its instant
LoadedDue(p, i) ==
  /\ loaded[p][i].status = "pending"
  /\ loaded[p][i].scheduledTime <= now[p]

\* C4: nothing keeps a second sweep from beginning while a first one awaits
\* osascript: on any free slot it can load the log; and every sweep runs
\* osascript for each entry it loaded as pending and due, whatever another
\* sweep has done to that entry since, so that two sweeps in flight both
\* send an entry both have loaded as pending and due.
C4_SweepsOverlap ==
  /\ \A p, q \in Procs :
       AwaitingTransport(p) /\ Free(q) /\ calls < MaxCalls
         => ENABLED SweepLoad(q)
  /\ \A p \in Procs :
       Returned(p, "sweep") =>
         \A i \in 1..Len(loaded[p]) :
           LoadedDue(p, i) => \E k \in 1..Len(tried[p]) : tried[p][k].entry = i

\* a sweep returns that loaded entry u as pending and delivered it, after
\* another sweep, begun while this one was in flight, delivered it too: the
\* entry was sent twice
C4_Witness ==
  \E p \in Procs : \E u \in Ids :
    /\ Returned(p, "sweep")
    /\ HasStatus(loaded[p], u, "pending")
    /\ u \in DeliveredBy(p)
    /\ fired[u] = 2
    /\ delivered[u] = 2

\* the ids of log m, in order
LogIds(m) == [i \in 1..Len(m) |-> m[i].id]
InLog(m, u) == \E i \in 1..Len(m) : m[i].id = u

\* C5: the save of a sweep replaces the whole file with the copy the sweep
\* loaded: when the sweep returns, the file holds exactly the entries of
\* that load, so an entry that scheduleMessage appended and acknowledged
\* after the load is no longer in the file.
C5_SweepSaveIsStale ==
  \A p \in Procs :
    Returned(p, "sweep") =>
      /\ LogIds(file) = LogIds(loaded[p])
      /\ \A u \in acked : ~InLog(loaded[p], u) => ~InLog(file, u)

\* a sweep that loaded an older entry and ran osascript for it returns;
\* scheduleMessage has acknowledged a newer entry that the sweep did not
\* load, and the file does not hold it
C5_Witness ==
  \E p \in Procs : \E u \in acked :
    /\ Returned(p, "sweep")
    /\ tried[p] # <<>>
    /\ \E i \in 1..Len(loaded[p]) : loaded[p][i].id < u
    /\ ~InLog(loaded[p], u)
    /\ ~InLog(file, u)

(***************************************************************************)
(* What each call of the schedule store does, one call at a time           *)
(***************************************************************************)
\* the osascript runs of call p for entry i of its log
RunsFor(p, i) == {k \in 1..Len(tried[p]) : tried[p][k].entry = i}

\* entries a and b differ at most in status and error
SameMessage(a, b) ==
  /\ a.id = b.id
  /\ a.recipient = b.recipient
  /\ a.message = b.message
  /\ a.scheduledTime = b.scheduledTime
  /\ a.created = b.created

\* C6: when a sweep that read the instant now returns, with no other call
\* in between, every entry it loaded as pending with a scheduled time at or
\* before now (now itself included) is sent if an osascript run delivered
\* it, and else is failed with the error text of sendMessage, built from the
\* message of the failed SMS run; every entry it loaded as pending with a
\* later scheduled time is as it was, and no osascript ran for it.
C6_SweepOutcome ==
  \A p \in Procs :
    Returned(p, "sweep") =>
      /\ Len(file) = Len(loaded[p])
      /\ \A i \in 1..Len(loaded[p]) :
           LET was == loaded[p][i]
               is == file[i]
           IN  /\ was.status = "pending" /\ was.scheduledTime <= now[p] =>
                    /\ SameMessage(was, is)
                    /\ RunsFor(p, i) # {}
                    /\ IF \E k \in RunsFor(p, i) : Ran(tried[p][k])
                         THEN is.status = "sent" /\ is.error = NoError
                         ELSE /\ is.status = "failed"
                              /\ \E k \in RunsFor(p, i) :
                                   /\ tried[p][k].service = "SMS"
                                   /\ is.error = SendFailure(tried[p][k].error)
               /\ was.status = "pending" /\ was.scheduledTime > now[p] =>
                    /\ is = was
                    /\ RunsFor(p, i) = {}

\* a sweep returns that failed an entry scheduled for the very instant it
\* read and left a later entry pending
C6_Witness ==
  \E p \in Procs :
    /\ Returned(p, "sweep")
    /\ \E i, j \in 1..Len(loaded[p]) :
         /\ loaded[p][i].status = "pending"
         /\ loaded[p][i].scheduledTime = now[p]
         /\ file[i].status = "failed"
         /\ file[i].error = SendFailure("timeout")
         /\ loaded[p][j].status = "pending"
         /\ loaded[p][j].scheduledTime > now[p]
         /\ file[j].status = "pending"

\* C7: cancel(id) returns "Scheduled message not found" when no entry of
\* the log has that id, and "Cannot cancel message with status: ..." when
\* the entry is not pending; in both cases it writes nothing and the file is
\* as it was.  Otherwise it returns success, has written the log once, and
\* the file is the log as it was with that one entry's status set to
\* cancelled.
C7_CancelOutcome ==
  \A p \in Procs :
    Returned(p, "cancel") =>
      LET was == before[p]
          id == req[p].id
          hits == {i \in 1..Len(was) : was[i].id = id}
      IN  IF hits = {}
            THEN /\ ~ret[p].success
                 /\ ret[p].error = "Scheduled message not found"
                 /\ io[p].writes = 0
                 /\ file = was
          ELSE IF \E i \in hits : was[i].status # "pending"
            THEN /\ ~ret[p].success
                 /\ \E i \in hits : ret[p].error = CannotCancel(was[i].status)
                 /\ io[p].writes = 0
                 /\ file = was
          ELSE /\ ret[p].success
               /\ ret[p].error = NoError
               /\ io[p].writes = 1
               /\ Cardinality(hits) = 1
               /\ Len(file) = Len(was)
               /\ \A i \in 1..Len(was) :
                    file[i] = IF i \in hits
                                THEN [was[i] EXCEPT !.status = "cancelled"]
                                ELSE was[i]

\* a cancel of the second of two pending entries has returned success
C7_Witness ==
  \E p \in Procs :
    /\ Returned(p, "cancel")
    /\ ret[p].success
    /\ Len(before[p]) = 2
    /\ before[p][1].status = "pending"
    /\ before[p][2].status = "pending"
    /\ before[p][2].id = req[p].id
    /\ file[1].status = "pending"
    /\ file[2].status = "cancelled"

\* the recipient is a phone number with 10 to 15 digits
PhoneShaped(recipient) ==
  Len(StripNonDigits(recipient)) >= 10 /\ Len(StripNonDigits(recipient)) <= 15

\* C8: schedule(recipient, body, when), begun at instant t, fails when the
\* recipient is neither an email address nor a phone number with 10 to 15
\* digits, when `when` does not parse, or when `when` is at or before t; it
\* has then read nothing, written nothing and run no osascript, and the file
\* is as it was.  Otherwise it returns success and the id of a new entry,
\* and the file is the log as it was with that one entry, pending, appended.
C8_ScheduleOutcome ==
  \A p \in Procs :
    Returned(p, "schedule") =>
      LET r == req[p]
          bad == \/ ~isEmail(r.recipient) /\ ~PhoneShaped(r.recipient)
                 \/ r.scheduledTime = NaN
                 \/ r.scheduledTime <= r.at
      IN  IF bad
            THEN /\ ~ret[p].success
                 /\ ret[p].error # NoError
                 /\ io[p].reads = 0
                 /\ io[p].writes = 0
                 /\ tried[p] = <<>>
                 /\ file = before[p]
            ELSE /\ ret[p].success
                 /\ ret[p].error = NoError
                 /\ io[p].writes = 1
                 /\ tried[p] = <<>>
                 /\ Len(file) = Len(before[p]) + 1
                 /\ SubSeq(file, 1, Len(before[p])) = before[p]
                 /\ ~InLog(before[p], ret[p].id)
                 /\ file[Len(file)].id = ret[p].id
                 /\ file[Len(file)].status = "pending"
                 /\ file[Len(file)].message = r.message
                 /\ file[Len(file)].scheduledTime = r.scheduledTime

\* a schedule for the very instant it is called at has been refused, for a
\* valid recipient; the log holds the entry of an earlier schedule
C8_Witness ==
  \E p \in Procs :
    /\ Returned(p, "schedule")
    /\ ~ret[p].success
    /\ PhoneShaped(req[p].recipient)
    /\ req[p].scheduledTime = req[p].at
    /\ Len(file) = 1
    /\ file[1].status = "pending"
    /\ file[1].id \in acked

(***************************************************************************)
(* sendMessage: the two services                                           *)
(***************************************************************************)
\* the osascript runs of one sendMessage of call p, in order: that of the
\* tool call (i = 0), or that of its sweep for entry i
SendRuns(p, i) == SelectSeq(tried[p], LAMBDA a : a.entry = i)

\* iMessage is run first; SMS is run once, and only after iMessage has
\* failed; nothing is run after that
PrimaryThenFallback(runs) ==
  /\ Len(runs) <= 2
  /\ Len(runs) >= 1 => runs[1].service = "iMessage"
  /\ Len(runs) = 2 => ~Ran(runs[1]) /\ runs[2].service = "SMS"

\* both services were run and both failed
BothFailed(runs) == Len(runs) = 2 /\ ~Ran(runs[1]) /\ ~Ran(runs[2])

\* the last run delivered the message
LastRan(runs) == runs # <<>> /\ Ran(runs[Len(runs)])

\* the sends of call p: the one of a send tool call, or one for each entry
\* of a sweep
Sends(p) == IF op[p] = "send" THEN {0} ELSE 1..Len(msgs[p])

\* the sweep of call p has marked entry i
Marked(p, i, st) == loaded[p][i].status = "pending" /\ msgs[p][i].status = st

\* C9 as stated: every send runs iMessage first, runs SMS exactly once and
\* only after iMessage failed, runs nothing else, reports failure only after
\* both have failed, and names the service that delivered when it reports
\* success.
C9_FailureOnlyAfterBoth ==
  \A p \in Procs :
    /\ \A i \in Sends(p) : PrimaryThenFallback(SendRuns(p, i))
    /\ Returned(p, "send") =>
         IF ret[p].success
           THEN /\ LastRan(SendRuns(p, 0))
                /\ ret[p].service = tried[p][Len(tried[p])].service
           ELSE BothFailed(SendRuns(p, 0))

\* C9, amended: every send whose recipient passes the recipient check runs
\* iMessage first, runs SMS exactly once and only after iMessage failed, and
\* runs nothing else; it reports failure only after both have failed, with
\* the message of the SMS run in the error text, and a success names the
\* service that delivered.  A send whose recipient fails the check reports
\* that failure at once and runs neither service.
C9_PrimaryThenFallback ==
  \A p \in Procs :
    /\ \A i \in Sends(p) : PrimaryThenFallback(SendRuns(p, i))
    /\ Returned(p, "send") =>
         LET runs == SendRuns(p, 0)
             r == req[p].recipient
         IN  IF ~isEmail(r) /\ ~PhoneShaped(r)
               THEN /\ ~ret[p].success
                    /\ ret[p].error \in {TooShort, TooLong}
                    /\ runs = <<>>
             ELSE IF ret[p].success
               THEN /\ LastRan(runs)
                    /\ ret[p].service = runs[Len(runs)].service
                    /\ ret[p].error = NoError
             ELSE /\ BothFailed(runs)
                  /\ ret[p].error = SendFailure(runs[2].error)
    /\ op[p] = "sweep" /\ pc[p] # "sweep_loaded" =>
         \A i \in 1..Len(msgs[p]) :
           /\ Marked(p, i, "sent") => LastRan(SendRuns(p, i))
           /\ Marked(p, i, "failed") => BothFailed(SendRuns(p, i))

\* a send tool call has returned success over SMS, after iMessage failed
C9_Witness ==
  \E p \in Procs :
    /\ Returned(p, "send")
    /\ ret[p].success
    /\ ret[p].service = "SMS"
    /\ Len(tried[p]) = 2
    /\ ~Ran(tried[p][1])
    /\ Ran(tried[p][2])

(***************************************************************************)
(* Semantic search: the fallback to lexical search                         *)
(***************************************************************************)
\* the semantic search has returned a value (its sqlite query did not throw)
SemanticReturned == spc = "done" /\ sop = "semantic" /\ sret.error = NoError

\* the search had no embedding of its query: the key is not set, or the
\* request for the query failed
NoQueryEmbedding == ~apiKey \/ queryEmbedding = Null

\* what the caller passed beside the query
PassedOptions == [f \in DOMAIN sargs \ {"query"} |-> sargs[f]]

\* no request goes to the provider without the key, and none for a
\* candidate while the fallback runs; only a search that has the embedding
\* of its query is tagged semantic
ProviderUse ==
  /\ ~apiKey => requests = NoRequests
  /\ sop = "semantic" /\ spc = "fts" => requests.candidates = 0
  /\ SemanticReturned /\ NoQueryEmbedding =>
       sret.method = "keyword" /\ requests.candidates = 0
  /\ SemanticReturned /\ sret.method = "semantic" =>
       apiKey /\ queryEmbedding.state = "vector" /\ requests.query = 1

SemanticRanked ==
  /\ SemanticReturned
  /\ queryEmbedding.state = "vector"
  /\ embeddings # <<>>

\* the place of a row in `messages`, the store's result
CandidateAt(id) ==
  CHOOSE k \in 1..Len(candidates) : candidates[k].id = id

\* the getEmbedding call of the row gave null
EmbeddingFailed(id) == embeddings[CandidateAt(id)] = Null

\* the similarity of candidate k to the query
Scored(k) == SimilarityOf(queryEmbedding, embeddings[k])

SameSimilarity(x, y) == ~Greater(x, y) /\ ~Greater(y, x)

Smaller(a, b) == IF a < b THEN a ELSE b

\* C11 as stated: in the list a semantic ranking returns, no candidate whose
\* embedding succeeded stands below a candidate whose embedding request
\* failed.
C11_FailedIsLast ==
  SemanticRanked =>
    \A i \in 1..Len(sret.results) : \A j \in 1..Len(sret.results) :
      i < j /\ EmbeddingFailed(sret.results[i].id) =>
        EmbeddingFailed(sret.results[j].id)

\* C11, amended: a candidate whose embedding request failed holds
\* similarity 0, which is not the least similarity: in the returned list
\* every candidate below it has a similarity of 0 or less, and every
\* candidate above it a similarity of 0 or more.
C11_FailedScoresZero ==
  SemanticRanked =>
    \A i \in 1..Len(sret.results) :
      EmbeddingFailed(sret.results[i].id) =>
        /\ sret.results[i].similarity = Zero
        /\ \A j \in 1..Len(sret.results) :
             /\ i < j => ~Greater(sret.results[j].similarity, Zero)
             /\ j < i => ~Greater(Zero, sret.results[j].similarity)

\* a ranking has returned a candidate whose embedding failed first, and
\* below it a candidate whose embedding succeeded, with a similarity under 0
C11_Witness ==
  /\ SemanticRanked
  /\ Len(sret.results) = 2
  /\ EmbeddingFailed(sret.results[1].id)
  /\ ~EmbeddingFailed(sret.results[2].id)
  /\ Greater(Zero, sret.results[2].similarity)

\* C12: whichever candidates' embedding requests fail, the semantic search
\* does not fail: while requests are outstanding it has returned nothing,
\* and once all have settled it returns, tagged semantic, a ranking of the
\* whole candidate set (as many elements as the limit allows, every
\* candidate when the limit allows all), in which each failed candidate has
\* similarity 0.
C12_FailedEmbeddingsAreRanked ==
  /\ spc = "embedding" =>
       /\ sret = NoSearchRet
       /\ \E k \in 1..Len(embeddings) : embeddings[k] = Pending
  /\ sop = "semantic" /\ spc = "done" /\ embeddings # <<>> =>
       /\ sret.error = NoError
       /\ sret.method = "semantic"
       /\ candidates = CandidateRows
       /\ Len(embeddings) = Len(candidates)
       /\ \A k \in 1..Len(embeddings) : embeddings[k] # Pending
       /\ Len(sret.results) =
            Smaller(SemanticLimit(sargs), Len(candidates))
       /\ \A i \in 1..Len(sret.results) :
            /\ \E k \in 1..Len(candidates) :
                 candidates[k].id = sret.results[i].id
            /\ EmbeddingFailed(sret.results[i].id) =>
                 sret.results[i].similarity = Zero
       /\ SemanticLimit(sargs) >= Len(candidates) =>
            \A k \in 1..Len(candidates) :
              \E i \in 1..Len(sret.results) :
                sret.results[i].id = candidates[k].id

\* the embedding requests of all of several candidates have failed and the
\* search has returned them all, tagged semantic
C12_Witness ==
  /\ SemanticRanked
  /\ Len(candidates) > 1
  /\ \A k \in 1..Len(embeddings) : embeddings[k] = Null
  /\ sret.method = "semantic"
  /\ Len(sret.results) = Len(candidates)

\* C13: the list a semantic ranking returns is in non-increasing similarity,
\* two candidates of equal similarity stand in the order of the store's
\* result, the list has min(limit, number of candidates) elements, and they
\* are the first of that ordering: no candidate left out comes before a
\* returned one.
C13_StableDescendingTop ==
  SemanticRanked =>
    /\ Len(sret.results) = Smaller(SemanticLimit(sargs), Len(candidates))
    /\ \A i \in 1..Len(sret.results) :
         sret.results[i].similarity = Scored(CandidateAt(sret.results[i].id))
    /\ \A i \in 1..Len(sret.results) : \A j \in 1..Len(sret.results) :
         i < j =>
           /\ ~Greater(sret.results[j].similarity, sret.results[i].similarity)
           /\ SameSimilarity(sret.results[i].similarity,
                             sret.results[j].similarity) =>
                CandidateAt(sret.results[i].id)
                  < CandidateAt(sret.results[j].id)
    /\ \A k \in 1..Len(candidates) :
         (\A i \in 1..Len(sret.results) : sret.results[i].id # candidates[k].id)
           => \A i \in 1..Len(sret.results) :
                /\ ~Greater(Scored(k), sret.results[i].similarity)
                /\ SameSimilarity(Scored(k), sret.results[i].similarity) =>
                     CandidateAt(sret.results[i].id) < k

\* a ranking of two candidates has put the later one of the store's result
\* first, for its greater similarity, above one of similarity under 0
C13_Witness ==
  /\ SemanticRanked
  /\ Len(candidates) = 2
  /\ Len(sret.results) = 2
  /\ sret.results[1].id = candidates[2].id
  /\ Greater(sret.results[1].similarity, sret.results[2].similarity)
  /\ Greater(Zero, sret.results[2].similarity)

(***************************************************************************)
(* Contact resolution: the cache                                           *)
(***************************************************************************)
\* the getContactName call of item k has returned
Resolved(k) == k \in 1..Len(lookups) /\ lookups[k].state = "returned"

\* the identifier under which a phone-shaped or address-shaped string is
\* to be resolved
Normalized(id) == IF isEmail(id) THEN id ELSE normalizePhoneNumber(id)

\* C14 as stated: once a resolve of an identifier has returned (a name, or
\* null after an empty answer or a rejection), the Map holds an entry for
\* the identifier, and every resolve of it that begins later asks the
\* directory nothing and returns that same result.
C14_LaterResolveIsSame ==
  /\ \A i \in DOMAIN completed : i \in DOMAIN contactCache
  /\ \A k \in 1..Len(lookups) :
       lookups[k].state # "skipped" /\ lookups[k].seen # {} =>
         /\ ~lookups[k].queried
         /\ lookups[k].state = "returned"
         /\ lookups[k].seen = {lookups[k].result}

\* C15 as stated: under any interleaving of the resolve calls, no step
\* removes an entry of the Map or replaces its value by another one.
C15_CacheEntryKept ==
  [][\A i \in DOMAIN contactCache :
       i \in DOMAIN contactCache' /\ contactCache'[i] = contactCache[i]]_vars

\* C16 as stated: on every path, a resolve looks up and stores the
\* normalized form of a phone-shaped identifier, so the Map has no entry
\* under another spelling, and two spellings that normalize to the same
\* string get the same result.
C16_ResolveNormalizes ==
  /\ \A k \in 1..Len(lookups) :
       lookups[k].state # "skipped" =>
         lookups[k].identifier = Normalized(items[k])
  /\ \A i \in DOMAIN contactCache : i = Normalized(i)
  /\ \A i \in DOMAIN contactCache : \A j \in DOMAIN contactCache :
       Normalized(i) = Normalized(j) => contactCache[i] = contactCache[j]

(***************************************************************************)
(* Contact resolution: the batch                                           *)
(***************************************************************************)
\* an item of the result carries a name
HasName(item) ==
  "contact_name" \in DOMAIN item /\ item.contact_name # Undefined

\* C17: a batch returns nothing while one of its resolutions is
\* outstanding, and it never fails; what it returns has one item for each
\* input item, in input order whatever the order in which the resolutions
\* returned; an item carries a name exactly when its own resolution gave
\* one, whatever became of the others.
C17_EnrichmentInOrder ==
  /\ cpc # "done" => cret = NoContactRet
  /\ cpc = "waiting" => \E k \in 1..Len(lookups) : lookups[k].state = "pending"
  /\ cpc = "done" =>
       /\ cret.returned
       /\ \A k \in 1..Len(lookups) : lookups[k].state # "pending"
  /\ cpc = "done" /\ ckind \in {"recent", "enrich"} =>
       /\ Len(cret.value) = Len(items)
       /\ \A k \in 1..Len(items) :
            /\ cret.value[k].id = k
            /\ cret.value[k].contact = items[k]
            /\ HasName(cret.value[k]) <=>
                 Resolved(k) /\ lookups[k].result # NullName
            /\ HasName(cret.value[k]) =>
                 cret.value[k].contact_name = lookups[k].result

\* a batch of two items has returned: the resolution of the second item
\* returned first, with a name; that of the first item failed
C17_Witness ==
  /\ cpc = "done"
  /\ ckind = "enrich"
  /\ Len(items) = 2
  /\ order = <<2, 1>>
  /\ lookups[1].queried /\ lookups[1].result = NullName
  /\ lookups[2].queried /\ lookups[2].result = FullName
  /\ ~HasName(cret.value[1])
  /\ HasName(cret.value[2])

(***************************************************************************)
(* The phone tools: normalization and validation                           *)
(***************************************************************************)
\* the number of digits of a string
DigitCount(s) == Len(StripNonDigits(s))

\* C18: normalizing a normalized phone number changes nothing, for inputs
\* with and without a leading plus sign, with any number of digits and with
\* other characters among them; so validating the normalized form a
\* validation returned gives that same form again.
C18_NormalizeIdempotent ==
  /\ Len(pnorm) = 2 => pnorm[2] = pnorm[1]
  /\ Len(pval) = 2 =>
       /\ pval[2].normalized = pval[1].normalized
       /\ pval[2].valid

\* a bare ten-digit input was normalized, to another string, and normalized
\* again
C18_Witness ==
  /\ Len(pnorm) = 2
  /\ DigitCount(phone) = 10
  /\ ~StartsWith(phone, "+")
  /\ pnorm[1] # phone
  /\ pnorm[1] = <<"+", "1">> \o StripNonDigits(phone)

\* the normalization the claim describes: +1 before ten digits that have no
\* leading plus sign, + before eleven digits that begin with 1, else the
\* digits behind the plus sign of the input if it began with one
BareTenOnly(s) ==
  LET digits == StripNonDigits(s)
  IN  IF Len(digits) = 10 /\ ~StartsWith(s, "+") THEN <<"+", "1">> \o digits
      ELSE IF Len(digits) = 11 /\ StartsWith(digits, "1")
        THEN <<"+">> \o digits
      ELSE IF StartsWith(s, "+") THEN <<"+">> \o digits
      ELSE digits

\* C19 as stated: normalization puts +1 only before a ten-digit input
\* without leading plus sign, and + only before eleven digits that begin
\* with 1; every other input keeps its digits, behind a plus sign exactly if
\* it began with one, so no country code is put into an input that begins
\* with a plus sign.
C19_PlusKeepsDigits ==
  Len(pnorm) >= 1 => pnorm[1] = BareTenOnly(phone)

\* C20: validation accepts an input exactly when it has 10 to 15 digits,
\* with the error of the bound it misses otherwise; normalization adds a
\* digit to a ten-digit input only, and the digits of the normalized form
\* are within the bounds exactly when those of the input are.
C20_TenToFifteenDigits ==
  Len(pval) >= 1 =>
    LET n == DigitCount(phone)
        m == DigitCount(pval[1].normalized)
    IN  /\ pval[1].valid <=> n >= 10 /\ n <= 15
        /\ n < 10 <=> pval[1].error = TooShort
        /\ n > 15 <=> pval[1].error = TooLong
        /\ pval[1].valid <=> pval[1].error = NoError
        /\ m = IF n = 10 THEN 11 ELSE n
        /\ (m >= 10 /\ m <= 15) <=> (n >= 10 /\ n <= 15)

\* a ten-digit input was accepted, its normalized form has eleven digits
C20_Witness ==
  /\ Len(pval) >= 1
  /\ DigitCount(phone) = 10
  /\ DigitCount(pval[1].normalized) = 11
  /\ pval[1].valid

(***************************************************************************)
(* Timestamps and the tools that read the message store                    *)
(***************************************************************************)
\* a conversion has encoded the instant a caller passed and decoded it
Converted == qtool = "convert" /\ qpc = "done"

IdentifierOperand(id) ==
  IF isEmail(id) THEN id ELSE normalizePhoneNumber(id)

HasCondition(c) == \E i \in 1..Len(qwhere) : qwhere[i] = c

\* C22: in getChatMessages and in searchMessagesFTS the identifier filter
\* holds an address verbatim and any other string normalized, and a search
\* whose contact filter is an address returns only messages of that
\* address.
C22_IdentifierFilter ==
  /\ qtool = "chat" =>
       HasCondition(ChatOrHandleLike(IdentifierOperand(qargs.chat_id)))
  /\ qtool = "search" /\ Given(qargs, "contact") =>
       /\ HasCondition(HandleLike(IdentifierOperand(qargs.contact)))
       /\ isEmail(qargs.contact) =>
            \A k \in 1..Len(qret.rows) :
              qret.rows[k].contact = qargs.contact

\* the filter fields of a retrieval, and those the caller supplied
FilterFields == {"startDate", "endDate", "contact", "chatId"}
Supplied == DOMAIN qargs \cap FilterFields
Malformed(field) == field \in Supplied /\ qargs[field] = NaN

\* C23: the WHERE clause of searchMessagesFTS and of getRecentMessages is
\* the base predicate and one predicate for each filter field the caller
\* supplied, and a call with a time bound that does not parse is rejected
\* before any query runs.
C23_OnePredicatePerField ==
  qtool \in {"search", "recent"} =>
    IF Malformed("startDate") \/ Malformed("endDate")
      THEN qpc = "done" /\ qissued = <<>> /\ qret.error # NoError
      ELSE /\ Len(qwhere) = 1 + Cardinality(Supplied)
           /\ "startDate" \in Supplied =>
                HasCondition(DateFrom(appleTimestampFromDate(qargs.startDate)))
           /\ "endDate" \in Supplied =>
                HasCondition(DateTo(appleTimestampFromDate(qargs.endDate)))

\* getMessageContext has returned a value
ContextReturned == qtool = "context" /\ qpc = "done" /\ qret.error = NoError
\* sqlite3 answered every query of the call with the rows it selects
Answered == \A i \in 1..Len(qoutputs) : qoutputs[i] = "rows"
\* `before` and `after` as the caller asked for them
Asked(field) ==
  IF field \in DOMAIN qargs THEN qargs[field] ELSE ContextDefault
\* the row of the table with the ROWID of an item
RowOf(item) == store[item.id]
TargetRow == store[qargs.message_id]
\* a message with text, of the target's chat
Around(m) == m.chat_id = TargetRow.chat_id /\ m.text # <<>>
OldestFirst(list) ==
  \A j \in 1..Len(list) : \A k \in j..Len(list) :
    RowOf(list[j]).date <= RowOf(list[k]).date
Returns(list, m) == \E k \in 1..Len(list) : list[k].id = m.id

\* C24: getMessageContext called with before = b and after = a returns at
\* most b messages older than the target and at most a newer ones, all of
\* the target's chat and oldest first on either side, and the messages it
\* leaves out on a side that is full are no nearer to the target than
\* those it returns.
C24_ContextWindow ==
  ContextReturned /\ Answered =>
    /\ Len(qret.before) <= Asked("before")
    /\ Len(qret.after) <= Asked("after")
    /\ \A k \in 1..Len(qret.before) :
         /\ Around(RowOf(qret.before[k]))
         /\ RowOf(qret.before[k]).date < TargetRow.date
    /\ \A k \in 1..Len(qret.after) :
         /\ Around(RowOf(qret.after[k]))
         /\ RowOf(qret.after[k]).date > TargetRow.date
    /\ OldestFirst(qret.before)
    /\ OldestFirst(qret.after)
    /\ \A i \in 1..Len(store) :
         Around(store[i]) /\ ~Returns(qret.before, store[i])
                         /\ store[i].date < TargetRow.date =>
           /\ Len(qret.before) = Asked("before")
           /\ \A k \in 1..Len(qret.before) :
                store[i].date <= RowOf(qret.before[k]).date
    /\ \A i \in 1..Len(store) :
         Around(store[i]) /\ ~Returns(qret.after, store[i])
                         /\ store[i].date > TargetRow.date =>
           /\ Len(qret.after) = Asked("after")
           /\ \A k \in 1..Len(qret.after) :
                RowOf(qret.after[k]).date <= store[i].date

\* the target query of the call has been answered
TargetAnswered == qtool = "context" /\ qpc = "done" /\ Len(qoutputs) > 0
\* no message of a chat has the ROWID the caller passed
Unresolved == TargetRows(store, qargs.message_id) = <<>>

\* C25: getMessageContext throws "Message not found" without running its
\* before and after queries when the target query selects no row, and
\* whenever it returns a value the target in it is a message with the
\* ROWID the caller passed.
C25_NotFoundOrTarget ==
  /\ TargetAnswered /\ Unresolved =>
       qret.error = MessageNotFound /\ qissued = <<"target">>
  /\ ContextReturned =>
       Len(qret.message) = 1 /\ qret.message[1].id = qargs.message_id

\* a search, a recent or a chat call is over, its query answered
RowsAnswered ==
  qtool \in {"search", "recent", "chat"} /\ qpc = "done" /\ Len(qoutputs) = 1

\* C26: a query operation whose store response is empty, is not JSON, or
\* is JSON but not an array of rows returns zero rows and throws nothing.
C26_MalformedIsNoRows ==
  RowsAnswered /\ qoutputs[1] \in {"empty", "unparseable", "object"} =>
    qret.rows = <<>> /\ qret.error = NoError

(***************************************************************************)
(* The schedule log                                                        *)
(***************************************************************************)
\* C27: on a log file that is missing or does not hold a log, no schedule
\* store call fails: list returns the empty log, cancel finds no entry,
\* and a call that writes leaves a log in the file.
C27_MalformedLogIsEmpty ==
  lop # "none" =>
    /\ ~lret.threw
    /\ lret.array
    /\ lop = "list" /\ disk # "entries" => lret.list = <<>>
    /\ lop = "cancel" /\ disk # "entries" => lret.error = NotFound
    /\ lop = "sweep" \/ (lop = "schedule" /\ lret.error = NoError) =>
         disk = "entries" /\ lret.success

\* the fields of an entry that no operation is to change
Identity(e) ==
  [id |-> e.id, recipient |-> e.recipient, message |-> e.message,
   scheduledTime |-> e.scheduledTime, created |-> e.created]

\* C28: with one call at a time, no step removes or reorders an entry of
\* the log or changes its id, recipient, body, scheduled time or creation
\* time: a schedule call appends one entry and leaves the others as they
\* are, cancel and the sweep change no more than status and error, and
\* list writes nothing and returns the log as it is stored.
C28_LogFrame ==
  [][/\ Len(file') >= Len(file)
     /\ \A i \in 1..Len(file) : Identity(file'[i]) = Identity(file[i])
     /\ file' # file =>
          \/ /\ \E p \in Procs : op[p] = "schedule"
             /\ Len(file') = Len(file) + 1
             /\ SubSeq(file', 1, Len(file)) = file
          \/ /\ \E p \in Procs : op[p] \in {"cancel", "sweep"}
             /\ Len(file') = Len(file)
     /\ \A p \in Procs :
          pc[p] = "idle" /\ pc'[p] = "done" /\ op'[p] = "list" =>
            file' = file /\ ret'[p].list = file]_vars

\* list returns a log of two entries, one cancelled and one swept
C28_Witness ==
  \E p \in Procs :
    /\ pc[p] = "done"
    /\ op[p] = "list"
    /\ Len(ret[p].list) = 2
    /\ ret[p].list[1].status = "cancelled"
    /\ ret[p].list[2].status \in {"sent", "failed"}
    /\ ret[p].list = file

\* C29: the scheduled time of every entry of the log is later than its
\* creation time, however far the clock moves between the future-time
\* check and the reading of the clock for `created`.
C29_ScheduledAfterCreated ==
  \A i \in 1..Len(file) : file[i].scheduledTime > file[i].created

\* the entries a returned sweep of call p moved from pending to st
Moved(p, st) ==
  {i \in 1..Len(before[p]) :
     before[p][i].status = "pending" /\ file[i].status = st}

\* C30: with one call at a time and no crash, sendMessage runs at most
\* once for an entry over all sweeps: once for an entry that is sent or
\* failed, never for a cancelled one, and the counts a sweep returns are
\* the numbers of entries it moved to sent and to failed.
C30_SentAtMostOnce ==
  /\ \A u \in Ids : fired[u] <= 1
  /\ \A i \in 1..Len(file) :
       /\ file[i].status = "cancelled" => fired[file[i].id] = 0
       /\ file[i].status \in {"sent", "failed"} => fired[file[i].id] = 1
  /\ \A p \in Procs :
       pc[p] = "done" /\ op[p] = "sweep" =>
         /\ ret[p].sent = Cardinality(Moved(p, "sent"))
         /\ ret[p].failed = Cardinality(Moved(p, "failed"))

\* a later sweep has returned: it found one entry failed and one sent,
\* sent neither again and counted nothing
C30_Witness ==
  \E p \in Procs :
    /\ pc[p] = "done"
    /\ op[p] = "sweep"
    /\ Len(before[p]) = 2
    /\ before[p][1].status = "failed"
    /\ before[p][2].status = "sent"
    /\ file = before[p]
    /\ ret[p].sent = 0
    /\ ret[p].failed = 0
    /\ \A u \in Ids : fired[u] = 1
============================================================================
